---- MODULE Spec2Model ----
(***************************************************************************)
(* Multi-chain wallet monitor (src/bot.py): the polling loop, the four     *)
(* network checkers, the per-wallet check-and-dispatch task and the        *)
(* retrying fetch.                                                         *)
(*                                                                         *)
(* Encoding.  A transaction id is a natural number: the position of the    *)
(* transaction in the wallet's on-chain history (1 = oldest).  EmptyTx (0) *)
(* is the empty string: the last_tx of a wallet without baseline, and the  *)
(* value tx.get("txhash", "") yields for an entry without that field.      *)
(* An amount is the pair [n, d] standing for n / 10^d.  The sleeps of      *)
(* fetch_with_retry are counted in half seconds.                           *)
(***************************************************************************)
EXTENDS Naturals, Integers, Sequences, FiniteSets, TLC

\* ------------------------------------------------------------------ bounds
\* Wallet rows in the registry.
MaxWallets == 2
\* Transactions the providers ever report, over all wallets together.
MaxTx == 3
\* Items a provider returns per query (limit=20 / offset=20 in the source,
\* scaled down so that a watermark can fall out of the window).
WindowLimit == 2
\* Wallet loads in a row that may fail before the table answers again.
MaxLoadErrors == 2
MaxCallers == 2
Tick == 15
MaxTime == 75

\* --------------------------------------------------------------- constants
EmptyTx == 0

MAX_RETRIES == 3
PRICE_CACHE_DURATION == 60
REQUEST_TIMEOUT == 15
POLL_SECONDS == 10
STARTUP_DELAY == 10

Wallets == 1 .. MaxWallets

\* One representative key of ETHERSCAN_NETWORKS, and the standalone keys.
ETHERSCAN_NETWORKS == {"ethereum"}

STANDALONE_NETWORKS == {"tron", "ton", "solana"}

ALL_NETWORKS == ETHERSCAN_NETWORKS \cup STANDALONE_NETWORKS

\* The address as the owner typed it (mixed case), the same account as the
\* providers spell it (lower case), and somebody else's account.
MonAddr == "0xAb"

SelfAddr == "0xab"

OtherAddr == "0xcd"

\* str.lower() on the addresses of the model.
Lower(s) == IF s = "0xAb" THEN "0xab" ELSE s

\* Raw amount a provider reports for a transfer that moves something.
SomeValue == 1

\* ------------------------------------------------------- provider entries
\* What ProviderNewTx may append to a wallet's history, per network.  `to`
\* is the destination on chain; `value` the raw amount.  Fields a checker
\* does not read are still there: they are the facts the claims speak of.
EvmItems ==
    [kind : {"native", "token"}, to : {SelfAddr}, value : {0, SomeValue},
     hashed : {TRUE}, legs : {0}, status : {1}, in_msg : {TRUE}]
    \cup
    [kind : {"native", "token"}, to : {OtherAddr}, value : {SomeValue},
     hashed : {TRUE}, legs : {0}, status : {1}, in_msg : {TRUE}]

TronItems ==
    [kind : {"tx"}, to : {SelfAddr}, value : {0, SomeValue},
     hashed : {TRUE}, legs : {0}, status : {1}, in_msg : {TRUE}]
    \cup
    [kind : {"tx"}, to : {OtherAddr}, value : {SomeValue},
     hashed : {TRUE}, legs : {0}, status : {1}, in_msg : {TRUE}]

\* A TON transaction of an account is triggered by a message to that
\* account: in_msg, when present, is addressed to it.
TonItems ==
    [kind : {"tx"}, to : {SelfAddr}, value : {0, SomeValue},
     hashed : {TRUE}, legs : {0}, status : {1}, in_msg : {TRUE}]
    \cup
    [kind : {"tx"}, to : {SelfAddr}, value : {0},
     hashed : {TRUE}, legs : {0}, status : {1}, in_msg : {FALSE}]

\* A Solana entry carries one token-transfer leg (legs = 1: `to` is the
\* leg's destination, `value` its amount) or none (legs = 0: a native
\* movement whose destination `to` and amount the endpoint does not give).
\* An entry may come without its "txhash" field.
SolanaItems ==
    [kind : {"tx"}, to : {SelfAddr}, value : {0, SomeValue},
     hashed : {TRUE}, legs : {1}, status : {1}, in_msg : {TRUE}]
    \cup
    [kind : {"tx"}, to : {SelfAddr}, value : {SomeValue},
     hashed : {FALSE}, legs : {1}, status : {1}, in_msg : {TRUE}]
    \cup
    [kind : {"tx"}, to : {OtherAddr}, value : {SomeValue},
     hashed : {TRUE}, legs : {1}, status : {1}, in_msg : {TRUE}]
    \cup
    [kind : {"tx"}, to : {SelfAddr, OtherAddr}, value : {SomeValue},
     hashed : {TRUE}, legs : {0}, status : {1}, in_msg : {TRUE}]
    \cup
    [kind : {"tx"}, to : {SelfAddr}, value : {SomeValue},
     hashed : {TRUE}, legs : {0}, status : {0}, in_msg : {TRUE}]

ItemsOf(net) ==
    CASE net = "tron" -> TronItems
      [] net = "ton" -> TonItems
      [] net = "solana" -> SolanaItems
      [] OTHER -> EvmItems

\* ------------------------------------------------------------------ state
VARIABLES
    db,        \* wallets table: wallet id -> row [user_id, network, address, last_tx]
    chain,     \* per wallet, what its provider knows: entries newest first
    loop,      \* monitor_loop: "sleeping", "gathering" or "stopped"
    errors,    \* wallet loads that failed since the last one that succeeded
    pc,        \* per wallet, where its check_single_wallet task stands
    row,       \* per wallet, the row the task was created with
    new_txs,   \* per wallet, the task's new_txs list
    k,         \* per wallet, iterations of the task's send loop begun so far
    seen,      \* per wallet, the provider entries the task's queries returned
    notified,  \* history: per wallet and transaction, messages delivered since
               \* the process started (capped at 2)
    writes,    \* history: per wallet, update_last_tx calls in this cycle (capped at 2)
    evicted,   \* history: per wallet, since the process started a check found
               \* the row's last_tx gone from the provider's window
    fetch,     \* one call of fetch_with_retry: its loop variable, what it did
               \* so far and what it returned
    keys,      \* the API keys the process was started with
    price_cache, \* symbol -> [price, timestamp] (and, as history, the time
               \* the entry was written)
    clock,     \* time.time(), in seconds since the process started
    calls,     \* per caller, its turn of the send loop around get_price_usd
    reg,       \* the wallets table beside its rows: the last id AUTOINCREMENT
               \* gave out and, as history, the last add_wallet or
               \* delete_wallet call and what it returned
    slept,     \* history: the sleep monitor_loop is in or came out of last
    form       \* the add-wallet dialogue: address typed, network chosen, and
               \* what validate_address said

vars == <<db, chain, loop, errors, pc, row, new_txs, k, seen, notified, writes,
          evicted, fetch, keys, price_cache, clock, calls, reg, slept, form>>

\* ------------------------------------------------------ pure helpers
RECURSIVE Reversed(_)
\* reversed(new_txs)
Reversed(s) == IF s = <<>> THEN <<>> ELSE Append(Reversed(Tail(s)), Head(s))

RECURSIVE Take(_, _)
Take(s, n) == IF n = 0 \/ s = <<>> THEN <<>> ELSE <<Head(s)>> \o Take(Tail(s), n - 1)

RECURSIVE OfKind(_, _)
OfKind(s, kind) ==
    IF s = <<>> THEN <<>>
    ELSE IF Head(s).kind = kind THEN <<Head(s)>> \o OfKind(Tail(s), kind)
    ELSE OfKind(Tail(s), kind)

\* What a provider answers to a query for the most recent entries of one
\* list of a wallet (txlist, tokentx, or the single list of the other
\* networks): the newest WindowLimit of them, newest first.
Window(history, kind) == Take(OfKind(history, kind), WindowLimit)

\* tx["hash"], and for Solana tx.get("txhash", "").
TxHash(tx) == IF tx.hashed THEN tx.pos ELSE EmptyTx

\* A (tx_hash, coin, amount) tuple of new_txs; pos names the provider entry
\* it was made from (history only: the code does not have it).
Event(tx, coin, decimals) ==
    [hash |-> TxHash(tx), coin |-> coin,
     amount |-> [n |-> tx.value, d |-> decimals], pos |-> tx.pos]

\* ------------------------------------------------------- network checkers
RECURSIVE EvmNativeWalkKeepingZero(_, _, _, _)
\* EvmNativeWalk as it would be without the test `value > 0`.
EvmNativeWalkKeepingZero(txs, address, last_tx, native_symbol) ==
    IF txs = <<>> THEN <<>>
    ELSE LET tx == Head(txs)
             rest == EvmNativeWalkKeepingZero(Tail(txs), address, last_tx,
                                              native_symbol)
         IN  IF TxHash(tx) = last_tx THEN <<>>
             ELSE IF Lower(tx.to) = Lower(address)
                  THEN <<Event(tx, native_symbol, 18)>> \o rest
                  ELSE rest

RECURSIVE EvmNativeWalk(_, _, _, _)
\* The loop over native_js["result"]: stop at last_tx, keep what is sent to
\* the address and moves a value.
EvmNativeWalk(txs, address, last_tx, native_symbol) ==
    IF txs = <<>> THEN <<>>
    ELSE LET tx == Head(txs)
             rest == EvmNativeWalk(Tail(txs), address, last_tx, native_symbol)
         IN  IF TxHash(tx) = last_tx THEN <<>>
             ELSE IF Lower(tx.to) = Lower(address) /\ tx.value > 0
                  THEN <<Event(tx, native_symbol, 18)>> \o rest
                  ELSE rest

RECURSIVE EvmTokenWalk(_, _, _)
\* The loop over token_js["result"], the same with the token's symbol.
EvmTokenWalk(txs, address, last_tx) ==
    IF txs = <<>> THEN <<>>
    ELSE LET tx == Head(txs)
             rest == EvmTokenWalk(Tail(txs), address, last_tx)
         IN  IF TxHash(tx) = last_tx THEN <<>>
             ELSE IF Lower(tx.to) = Lower(address) /\ tx.value > 0
                  THEN <<Event(tx, "TOKEN", 18)>> \o rest
                  ELSE rest

\* check_evm_unified, given the answers to its two queries (ok = FALSE: the
\* fetch returned nothing, or a status other than "1"): the native events
\* followed by the token events.
check_evm_unified(native_js, token_js, address, last_tx, net_key) ==
    IF net_key \notin ETHERSCAN_NETWORKS THEN <<>>
    ELSE (IF native_js.ok
          THEN EvmNativeWalk(native_js.txs, address, last_tx, "ETH") ELSE <<>>)
         \o
         (IF token_js.ok
          THEN EvmTokenWalk(token_js.txs, address, last_tx) ELSE <<>>)

RECURSIVE TronWalkNoBreak(_, _, _)
\* TronWalk as it would be with `continue` where the source has `break`:
\* the watermark's own entry is skipped and the walk goes on to older ones.
TronWalkNoBreak(txs, address, last_tx) ==
    IF txs = <<>> THEN <<>>
    ELSE LET tx == Head(txs)
             rest == TronWalkNoBreak(Tail(txs), address, last_tx)
         IN  IF TxHash(tx) = last_tx THEN rest
             ELSE IF Lower(tx.to) # Lower(address) THEN rest
             ELSE IF tx.value > 0 THEN <<Event(tx, "TRX", 6)>> \o rest
             ELSE rest

RECURSIVE TronWalk(_, _, _)
\* The loop over js["data"]: stop at last_tx, skip what goes elsewhere, keep
\* what moves a value.
TronWalk(txs, address, last_tx) ==
    IF txs = <<>> THEN <<>>
    ELSE LET tx == Head(txs)
             rest == TronWalk(Tail(txs), address, last_tx)
         IN  IF TxHash(tx) = last_tx THEN <<>>
             ELSE IF Lower(tx.to) # Lower(address) THEN rest
             ELSE IF tx.value > 0 THEN <<Event(tx, "TRX", 6)>> \o rest
             ELSE rest

check_tron(js, address, last_tx) ==
    IF ~js.ok THEN <<>> ELSE TronWalk(js.txs, address, last_tx)

RECURSIVE TonWalk(_, _)
\* The destination of in_msg is not looked at.
TonWalk(txs, last_tx) ==
    IF txs = <<>> THEN <<>>
    ELSE LET tx == Head(txs)
             rest == TonWalk(Tail(txs), last_tx)
         IN  IF TxHash(tx) = last_tx THEN <<>>
             ELSE IF ~tx.in_msg THEN rest
             ELSE IF tx.value > 0 THEN <<Event(tx, "TON", 9)>> \o rest
             ELSE rest

check_ton(js, address, last_tx) ==
    IF ~js.ok THEN <<>> ELSE TonWalk(js.txs, last_tx)

RECURSIVE SolanaWalkLegsOnly(_, _, _)
\* SolanaWalk as it would be without the branch `if not token_transfers`.
SolanaWalkLegsOnly(txs, address, last_tx) ==
    IF txs = <<>> THEN <<>>
    ELSE LET tx == Head(txs)
             sig == TxHash(tx)
             rest == SolanaWalkLegsOnly(Tail(txs), address, last_tx)
         IN  IF sig = last_tx THEN <<>>
             ELSE IF tx.legs > 0 /\ Lower(tx.to) = Lower(address) /\ tx.value > 0
                  THEN <<Event(tx, "SOL", 0)>> \o rest
                  ELSE rest

RECURSIVE SolanaWalk(_, _, _)
\* With token legs: one event per leg to the address with a positive
\* amount.  Without: one event of amount 0.0 when the status is 1.
SolanaWalk(txs, address, last_tx) ==
    IF txs = <<>> THEN <<>>
    ELSE LET tx == Head(txs)
             sig == TxHash(tx)
             rest == SolanaWalk(Tail(txs), address, last_tx)
         IN  IF sig = last_tx THEN <<>>
             ELSE IF tx.legs > 0
                  THEN IF Lower(tx.to) = Lower(address) /\ tx.value > 0
                       THEN <<Event(tx, "SOL", 0)>> \o rest
                       ELSE rest
                  ELSE IF tx.status = 1
                       THEN <<[hash |-> sig, coin |-> "SOL",
                               amount |-> [n |-> 0, d |-> 0], pos |-> tx.pos]>>
                            \o rest
                       ELSE rest

check_solana(js, address, last_tx) ==
    IF ~js.ok \/ js.txs = <<>> THEN <<>> ELSE SolanaWalk(js.txs, address, last_tx)

\* The branch of check_single_wallet on net_key, given the answers to the
\* checker's queries (a standalone checker makes one and reads only js1).
Checker(net_key, js1, js2, address, last_tx) ==
    CASE net_key = "tron" -> check_tron(js1, address, last_tx)
      [] net_key = "ton" -> check_ton(js1, address, last_tx)
      [] net_key = "solana" -> check_solana(js1, address, last_tx)
      [] net_key \in ETHERSCAN_NETWORKS ->
             check_evm_unified(js1, js2, address, last_tx, net_key)
      [] OTHER -> <<>>

\* ------------------------------------------------------------- the message
RECURSIVE Pow10(_)
Pow10(e) == IF e = 0 THEN 1 ELSE 10 * Pow10(e - 1)

\* n / 10^e rounded to the nearest integer, halves to the even one.  The
\* numerators of the model stay below 5 * 10^9: from e = 10 on it is 0.
RoundDiv(n, e) ==
    IF e >= 10 THEN 0
    ELSE LET q == n \div Pow10(e)
             r == n % Pow10(e)
         IN  IF 2 * r > Pow10(e) \/ (2 * r = Pow10(e) /\ q % 2 = 1)
             THEN q + 1 ELSE q

\* The amount n / 10^d in units of 10^-8, as f"{amount:,.8f}" prints it.
Fixed8(amount) ==
    IF amount.d >= 8 THEN RoundDiv(amount.n, amount.d - 8)
    ELSE amount.n * Pow10(8 - amount.d)

\* The two fields of the message that depend on amount and price (the
\* price in cents per coin, 0 when get_price_usd had none):
\*   usd = round(amount * price, 2) if price else 0
\*   amount > 0 : f"{amount:,.8f}" and f"${usd:,.2f}"
\*   otherwise  : "Check TX for details" and the dash (here "--")
Render(amount, price) ==
    LET usd == IF price # 0 THEN RoundDiv(amount.n * price, amount.d) ELSE 0
    IN  IF amount.n > 0
        THEN [amount_str |-> <<"fixed8", Fixed8(amount)>>,
              usd_str |-> <<"$", usd>>]
        ELSE [amount_str |-> <<"Check TX for details">>, usd_str |-> <<"--">>]

\* --------------------------------------------------------------- actions
Cap2(n) == IF n >= 2 THEN 2 ELSE n

\* The row of a wallet id no task holds.
NoRow ==
    [user_id |-> 0, network |-> "", address |-> "", label |-> "", last_tx |-> EmptyTx]

TotalTx == LET RECURSIVE Sum(_)
               Sum(S) == IF S = {} THEN 0
                         ELSE LET w == CHOOSE x \in S : TRUE
                              IN  Len(chain[w]) + Sum(S \ {w})
           IN  Sum(Wallets)

\* The ids the provider's current windows of a wallet hold.
WindowHashes(w) ==
    LET kinds == IF row[w].network \in ETHERSCAN_NETWORKS
                 THEN {"native", "token"} ELSE {"tx"}
    IN  UNION {{TxHash(Window(chain[w], kind)[i]) :
                   i \in 1 .. Len(Window(chain[w], kind))} : kind \in kinds}

\* No call of fetch_with_retry under way.
NoCall == [attempt |-> 0, requests |-> 0, sleeps |-> <<>>, responses |-> <<>>,
           result |-> "idle"]

\* The sleeps of monitor_loop: asyncio.sleep(10) before the loop,
\* asyncio.sleep(POLL_SECONDS) at the end of a pass and in the handler; and
\* the loop awake.
StartupSleep == [kind |-> "startup", seconds |-> STARTUP_DELAY]

PollSleep == [kind |-> "poll", seconds |-> POLL_SECONDS]

NoSleep == [kind |-> "none", seconds |-> 0]

\* Nobody is in the add-wallet dialogue.
NoForm == [state |-> "idle", address |-> <<>>, net_key |-> "", valid |-> FALSE]

\* The two keys read from the environment at start-up.
API_KEYS == {"ETHERSCAN_API_KEY", "SOLSCAN_API_KEY"}

\* The guard at the head of check_evm_unified and of check_solana: the key
\* the checker of `net` wants is there (check_tron and check_ton want none).
HasKey(net) ==
    CASE net \in ETHERSCAN_NETWORKS -> "ETHERSCAN_API_KEY" \in keys
      [] net = "solana" -> "SOLSCAN_API_KEY" \in keys
      [] OTHER -> TRUE

\* The tasks that may stand in get_price_usd at the same time.
Callers == 1 .. MaxCallers

\* price_cache = {} at import.
NoPrices == [s \in {} |-> 0]

\* A caller that has not asked for a price yet.
NoTurn == [state |-> "idle", symbol |-> "", now |-> 0, outcome |-> "none", price |-> 0]

\* The wallets table once the owners have registered the addresses of
\* `rows`, each before it had any transaction (get_latest_tx returned ""),
\* and the monitor in its start-up sleep.
InitAll(rows, keysets) ==
    /\ db \in rows
    /\ keys \in keysets
    /\ price_cache = NoPrices
    /\ clock = 0
    /\ calls = [c \in Callers |-> NoTurn]
    /\ reg = [seq |-> Cardinality(DOMAIN db), op |-> <<>>]
    /\ slept = StartupSleep
    /\ form = NoForm
    /\ chain = [w \in Wallets |-> <<>>]
    /\ loop = "sleeping"
    /\ errors = 0
    /\ fetch = NoCall
    /\ pc = [w \in Wallets |-> "idle"]
    /\ row = [w \in Wallets |-> NoRow]
    /\ new_txs = [w \in Wallets |-> <<>>]
    /\ k = [w \in Wallets |-> 0]
    /\ seen = [w \in Wallets |-> <<>>]
    /\ notified = [w \in Wallets |-> [p \in 1 .. MaxTx |-> 0]]
    /\ writes = [w \in Wallets |-> 0]
    /\ evicted = [w \in Wallets |-> FALSE]

\* The same with both API keys configured.
InitWith(rows) == InitAll(rows, {API_KEYS})

\* One wallet, of any network.
Init ==
    InitWith([{1} -> [user_id : {1}, network : ALL_NETWORKS,
                      address : {MonAddr}, label : {"a"},
                      last_tx : {EmptyTx}]])

\* One wallet, on TRON.
InitTron ==
    InitWith([{1} -> [user_id : {1}, network : {"tron"},
                      address : {MonAddr}, label : {"a"},
                      last_tx : {EmptyTx}]])

\* A transaction touching the wallet's address appears at its provider.
ProviderNewTx(w) ==
    /\ TotalTx < MaxTx
    /\ \E item \in ItemsOf(db[w].network) :
          chain' = [chain EXCEPT ![w] =
                       <<[kind |-> item.kind, to |-> item.to, value |-> item.value,
                          hashed |-> item.hashed, legs |-> item.legs,
                          status |-> item.status, in_msg |-> item.in_msg,
                          pos |-> Len(chain[w]) + 1]>> \o @]
    /\ UNCHANGED <<db, loop, pc, row, new_txs, k, seen, notified, writes,
                   evicted, errors, fetch, keys, price_cache, clock, calls,
                   reg, slept, form>>

\* monitor_loop wakes up, reads the wallets and creates one task per row.
StartCycle ==
    /\ loop = "sleeping"
    /\ loop' = "gathering"
    /\ row' = [w \in Wallets |-> IF w \in DOMAIN db THEN db[w] ELSE NoRow]
    /\ pc' = [w \in Wallets |-> IF w \in DOMAIN db THEN "fetch" ELSE "idle"]
    /\ new_txs' = [w \in Wallets |-> <<>>]
    /\ k' = [w \in Wallets |-> 0]
    /\ seen' = [w \in Wallets |-> <<>>]
    /\ writes' = [w \in Wallets |-> 0]
    /\ errors' = 0
    /\ slept' = NoSleep
    /\ UNCHANGED <<db, chain, notified, evicted, fetch,
                   keys, price_cache, clock, calls, reg, form>>

\* LoadFails as it would be without the try/except of the loop: the error
\* of get_wallets ends monitor_loop.
LoadFailsEscaping ==
    /\ loop = "sleeping"
    /\ errors < MaxLoadErrors
    /\ errors' = errors + 1
    /\ loop' = "stopped"
    /\ row' = [w \in Wallets |-> NoRow]
    /\ pc' = [w \in Wallets |-> "idle"]
    /\ new_txs' = [w \in Wallets |-> <<>>]
    /\ k' = [w \in Wallets |-> 0]
    /\ seen' = [w \in Wallets |-> <<>>]
    /\ writes' = [w \in Wallets |-> 0]
    /\ UNCHANGED <<db, chain, notified, evicted, fetch,
                   keys, price_cache, clock, calls, reg, slept, form>>

\* LoadFails as it would be if the handler of the loop logged the error and
\* did not sleep.
LoadFailsNotSleeping ==
    /\ loop = "sleeping"
    /\ errors < MaxLoadErrors
    /\ errors' = errors + 1
    /\ row' = [w \in Wallets |-> NoRow]
    /\ pc' = [w \in Wallets |-> "idle"]
    /\ new_txs' = [w \in Wallets |-> <<>>]
    /\ k' = [w \in Wallets |-> 0]
    /\ seen' = [w \in Wallets |-> <<>>]
    /\ writes' = [w \in Wallets |-> 0]
    /\ slept' = NoSleep
    /\ UNCHANGED <<db, chain, loop, notified, evicted, fetch,
                   keys, price_cache, clock, calls, reg, form>>

\* monitor_loop wakes up and get_wallets raises: the handler of the loop
\* logs it and sleeps POLL_SECONDS; the cycle has made no task.
LoadFails ==
    /\ loop = "sleeping"
    /\ errors < MaxLoadErrors
    /\ errors' = errors + 1
    /\ row' = [w \in Wallets |-> NoRow]
    /\ pc' = [w \in Wallets |-> "idle"]
    /\ new_txs' = [w \in Wallets |-> <<>>]
    /\ k' = [w \in Wallets |-> 0]
    /\ seen' = [w \in Wallets |-> <<>>]
    /\ writes' = [w \in Wallets |-> 0]
    /\ slept' = PollSleep
    /\ UNCHANGED <<db, chain, loop, notified, evicted, fetch,
                   keys, price_cache, clock, calls, reg, form>>

\* What fetch_with_retry hands back for a query: the provider's window, or
\* nothing.
Answer(w, kind, ok) == [ok |-> ok, txs |-> IF ok THEN Window(chain[w], kind) ELSE <<>>]

Found(w, txs) ==
    /\ new_txs' = [new_txs EXCEPT ![w] = txs]
    /\ pc' = [pc EXCEPT ![w] = IF txs # <<>> THEN "send" ELSE "done"]
    /\ evicted' = [evicted EXCEPT ![w] =
                      @ \/ (row[w].last_tx # EmptyTx
                            /\ row[w].last_tx \notin WindowHashes(w))]

\* QueryStandalone as it would be if check_solana did not look at its key.
QueryStandaloneWithoutKey(w) ==
    /\ pc[w] = "fetch"
    /\ row[w].network \in STANDALONE_NETWORKS
    /\ \E ok \in BOOLEAN :
          LET js == Answer(w, "tx", ok)
          IN  /\ seen' = [seen EXCEPT ![w] = <<js>>]
              /\ Found(w, Checker(row[w].network, js, js, row[w].address,
                                  row[w].last_tx))
    /\ UNCHANGED <<db, chain, loop, row, k, notified, writes, errors, fetch,
                   keys, price_cache, clock, calls, reg, slept, form>>

\* check_tron / check_ton / check_solana: one query, then the walk; without
\* its key check_solana returns [] before any query.
QueryStandalone(w) ==
    /\ pc[w] = "fetch"
    /\ row[w].network \in STANDALONE_NETWORKS
    /\ IF HasKey(row[w].network)
       THEN \E ok \in BOOLEAN :
               LET js == Answer(w, "tx", ok)
               IN  /\ seen' = [seen EXCEPT ![w] = <<js>>]
                   /\ Found(w, Checker(row[w].network, js, js, row[w].address,
                                       row[w].last_tx))
       ELSE /\ seen' = [seen EXCEPT ![w] = <<>>]
            /\ new_txs' = [new_txs EXCEPT ![w] = <<>>]
            /\ pc' = [pc EXCEPT ![w] = "done"]
            /\ UNCHANGED evicted
    /\ UNCHANGED <<db, chain, loop, row, k, notified, writes, errors, fetch,
                   keys, price_cache, clock, calls, reg, slept, form>>

\* check_evm_unified up to its second await: the native list is in; without
\* the Etherscan key it returns [] before any query.
QueryNative(w) ==
    /\ pc[w] = "fetch"
    /\ row[w].network \in ETHERSCAN_NETWORKS
    /\ IF HasKey(row[w].network)
       THEN /\ \E ok \in BOOLEAN :
                 seen' = [seen EXCEPT ![w] = <<Answer(w, "native", ok)>>]
            /\ pc' = [pc EXCEPT ![w] = "token"]
       ELSE /\ seen' = [seen EXCEPT ![w] = <<>>]
            /\ pc' = [pc EXCEPT ![w] = "done"]
    /\ UNCHANGED <<db, chain, loop, row, new_txs, k, notified, writes, evicted,
                   errors, fetch, keys, price_cache, clock, calls,
                   reg, slept, form>>

\* check_evm_unified from its second await on: the token list is in.
QueryToken(w) ==
    /\ pc[w] = "token"
    /\ \E ok \in BOOLEAN :
          LET js == Answer(w, "token", ok)
          IN  /\ seen' = [seen EXCEPT ![w] = Append(@, js)]
              /\ Found(w, Checker(row[w].network, seen[w][1], js, row[w].address,
                                  row[w].last_tx))
    /\ UNCHANGED <<db, chain, loop, row, k, notified, writes, errors, fetch,
                   keys, price_cache, clock, calls, reg, slept, form>>

\* Notify as it would be if the watermark were advanced with every send.
NotifyAdvancing(w) ==
    /\ pc[w] = "send"
    /\ k[w] < Len(new_txs[w])
    /\ \E delivered \in BOOLEAN :
          LET ev == Reversed(new_txs[w])[k[w] + 1]
          IN  /\ notified' = [notified EXCEPT ![w][ev.pos] =
                                  IF delivered THEN Cap2(@ + 1) ELSE @]
              /\ db' = [db EXCEPT ![w].last_tx = ev.hash]
    /\ writes' = [writes EXCEPT ![w] = Cap2(@ + 1)]
    /\ k' = [k EXCEPT ![w] = @ + 1]
    /\ UNCHANGED <<chain, loop, pc, row, new_txs, seen, evicted, errors, fetch,
                   keys, price_cache, clock, calls, reg, slept, form>>

\* Notify as it would be without the inner try/except: a send that raises
\* ends the task in the outer handler, the rest unsent, nothing written.
NotifyRaising(w) ==
    /\ pc[w] = "send"
    /\ k[w] < Len(new_txs[w])
    /\ \E delivered \in BOOLEAN :
          LET ev == Reversed(new_txs[w])[k[w] + 1]
          IN  /\ notified' = [notified EXCEPT ![w][ev.pos] =
                                  IF delivered THEN Cap2(@ + 1) ELSE @]
              /\ pc' = [pc EXCEPT ![w] = IF delivered THEN @ ELSE "done"]
    /\ k' = [k EXCEPT ![w] = @ + 1]
    /\ UNCHANGED <<db, chain, loop, row, new_txs, seen, writes, evicted,
                   errors, fetch, keys, price_cache, clock, calls,
                   reg, slept, form>>

\* Notify as it would be if the loop ran over new_txs and not over
\* reversed(new_txs).
NotifyNewestFirst(w) ==
    /\ pc[w] = "send"
    /\ k[w] < Len(new_txs[w])
    /\ \E delivered \in BOOLEAN :
          LET ev == new_txs[w][k[w] + 1]
          IN  notified' = [notified EXCEPT ![w][ev.pos] =
                              IF delivered THEN Cap2(@ + 1) ELSE @]
    /\ k' = [k EXCEPT ![w] = @ + 1]
    /\ UNCHANGED <<db, chain, loop, pc, row, new_txs, seen, writes, evicted,
                   errors, fetch, keys, price_cache, clock, calls,
                   reg, slept, form>>

\* One turn of the send loop: the next tuple of reversed(new_txs), its price,
\* bot.send_message (which may raise: logged, the loop goes on) and the
\* 0.5 s pause.
Notify(w) ==
    /\ pc[w] = "send"
    /\ k[w] < Len(new_txs[w])
    /\ \E delivered \in BOOLEAN :
          LET ev == Reversed(new_txs[w])[k[w] + 1]
          IN  notified' = [notified EXCEPT ![w][ev.pos] =
                              IF delivered THEN Cap2(@ + 1) ELSE @]
    /\ k' = [k EXCEPT ![w] = @ + 1]
    /\ UNCHANGED <<db, chain, loop, pc, row, new_txs, seen, writes, evicted,
                   errors, fetch, keys, price_cache, clock, calls,
                   reg, slept, form>>

\* WriteWatermark as it would be if update_last_tx wrote the row whether it
\* is there or not (INSERT OR REPLACE of the row the task holds).
WriteWatermarkUpserting(w) ==
    /\ pc[w] = "send"
    /\ k[w] = Len(new_txs[w])
    /\ db' = [v \in DOMAIN db \cup {w} |->
                 IF v = w THEN [row[w] EXCEPT !.last_tx = new_txs[w][1].hash]
                 ELSE db[v]]
    /\ writes' = [writes EXCEPT ![w] = Cap2(@ + 1)]
    /\ pc' = [pc EXCEPT ![w] = "done"]
    /\ UNCHANGED <<chain, loop, row, new_txs, k, seen, notified, evicted,
                   errors, fetch, keys, price_cache, clock, calls,
                   reg, slept, form>>

\* WriteWatermark as it would be if the write stood outside `if new_txs:`:
\* a task whose diff is empty writes back the watermark it holds.
WriteWatermarkUnconditional(w) ==
    /\ \/ pc[w] = "send" /\ k[w] = Len(new_txs[w])
       \/ pc[w] = "done" /\ new_txs[w] = <<>> /\ writes[w] = 0
    /\ db' = IF w \in DOMAIN db
             THEN [db EXCEPT ![w].last_tx =
                      IF new_txs[w] # <<>> THEN new_txs[w][1].hash
                      ELSE row[w].last_tx]
             ELSE db
    /\ writes' = [writes EXCEPT ![w] = Cap2(@ + 1)]
    /\ pc' = [pc EXCEPT ![w] = "done"]
    /\ UNCHANGED <<chain, loop, row, new_txs, k, seen, notified, evicted,
                   errors, fetch, keys, price_cache, clock, calls,
                   reg, slept, form>>

\* After the loop: update_last_tx(wallet_id, new_txs[0][0]); an UPDATE of a
\* row that is gone changes nothing.
WriteWatermark(w) ==
    /\ pc[w] = "send"
    /\ k[w] = Len(new_txs[w])
    /\ db' = IF w \in DOMAIN db
             THEN [db EXCEPT ![w].last_tx = new_txs[w][1].hash] ELSE db
    /\ writes' = [writes EXCEPT ![w] = Cap2(@ + 1)]
    /\ pc' = [pc EXCEPT ![w] = "done"]
    /\ UNCHANGED <<chain, loop, row, new_txs, k, seen, notified, evicted,
                   errors, fetch, keys, price_cache, clock, calls,
                   reg, slept, form>>

\* Raise as it would be without the task's outer try/except and without
\* return_exceptions: gather hands the error to monitor_loop at once, whose
\* handler sleeps while the other tasks are still under way.
RaiseEscaping(w) ==
    /\ \/ /\ pc[w] \in {"fetch", "token"}
          /\ row[w].network \in ALL_NETWORKS
          /\ HasKey(row[w].network)
       \/ pc[w] = "send" /\ k[w] = Len(new_txs[w])
    /\ pc' = [pc EXCEPT ![w] = "raised"]
    /\ new_txs' = [new_txs EXCEPT ![w] = <<>>]
    /\ k' = [k EXCEPT ![w] = 0]
    /\ seen' = [seen EXCEPT ![w] = <<>>]
    /\ loop' = "sleeping"
    /\ errors' = IF errors < MaxLoadErrors THEN errors + 1 ELSE errors
    /\ slept' = PollSleep
    /\ UNCHANGED <<db, chain, row, notified, writes, evicted, fetch,
                   keys, price_cache, clock, calls, reg, form>>

\* Something in the task raises outside the send loop's own handler: the
\* checker on an entry of an answer it cannot read (tx["hash"], int(...)),
\* or update_last_tx on the table.  The task's outer handler logs it and the
\* task is over, with nothing more sent or written and its locals gone.
Raise(w) ==
    /\ \/ /\ pc[w] \in {"fetch", "token"}
          /\ row[w].network \in ALL_NETWORKS
          /\ HasKey(row[w].network)
       \/ pc[w] = "send" /\ k[w] = Len(new_txs[w])
    /\ pc' = [pc EXCEPT ![w] = "raised"]
    /\ new_txs' = [new_txs EXCEPT ![w] = <<>>]
    /\ k' = [k EXCEPT ![w] = 0]
    /\ seen' = [seen EXCEPT ![w] = <<>>]
    /\ UNCHANGED <<db, chain, loop, errors, row, notified, writes, evicted,
                   fetch, keys, price_cache, clock, calls, reg, slept, form>>

\* EndCycle as it would be if the loop did not await gather.
EndCycleNotWaiting ==
    /\ loop = "gathering"
    /\ loop' = "sleeping"
    /\ slept' = PollSleep
    /\ UNCHANGED <<db, chain, pc, row, new_txs, k, seen, notified, writes,
                   evicted, errors, fetch, keys, price_cache, clock, calls,
                   reg, form>>

\* asyncio.gather returns once every task has; the loop sleeps POLL_SECONDS.
EndCycle ==
    /\ loop = "gathering"
    /\ \A w \in Wallets : pc[w] \in {"idle", "done", "raised"}
    /\ loop' = "sleeping"
    /\ slept' = PollSleep
    /\ UNCHANGED <<db, chain, pc, row, new_txs, k, seen, notified, writes,
                   evicted, errors, fetch, keys, price_cache, clock, calls,
                   reg, form>>

\* main()'s finally: monitor_task.cancel().  The loop and, through gather,
\* every unfinished task get CancelledError at the await they stand at;
\* `except Exception` does not catch it.  A crash of the process leaves the
\* same behind: the table as last committed, no task.
Cancel ==
    /\ loop # "stopped"
    /\ loop' = "stopped"
    /\ pc' = [w \in Wallets |->
                 IF pc[w] \in {"fetch", "token", "send"} THEN "cancelled" ELSE pc[w]]
    /\ UNCHANGED <<db, chain, row, new_txs, k, seen, notified, writes, evicted,
                   errors, fetch, keys, price_cache, clock, calls,
                   reg, slept, form>>

\* The process is started again: init_db keeps the rows, a new monitor task
\* begins with its start-up sleep.
Restart ==
    /\ loop = "stopped"
    /\ loop' = "sleeping"
    /\ pc' = [w \in Wallets |-> "idle"]
    /\ row' = [w \in Wallets |-> NoRow]
    /\ new_txs' = [w \in Wallets |-> <<>>]
    /\ k' = [w \in Wallets |-> 0]
    /\ seen' = [w \in Wallets |-> <<>>]
    /\ writes' = [w \in Wallets |-> 0]
    /\ notified' = [w \in Wallets |-> [p \in 1 .. MaxTx |-> 0]]
    /\ evicted' = [w \in Wallets |-> FALSE]
    /\ errors' = 0
    /\ price_cache' = NoPrices
    /\ calls' = [c \in Callers |-> NoTurn]
    /\ slept' = StartupSleep
    /\ UNCHANGED <<db, chain, fetch, keys, clock, reg, form>>

Next ==
    \/ \E w \in DOMAIN db : ProviderNewTx(w)
    \/ StartCycle
    \/ LoadFails
    \/ \E w \in Wallets : QueryStandalone(w)
    \/ \E w \in Wallets : QueryNative(w)
    \/ \E w \in Wallets : QueryToken(w)
    \/ \E w \in Wallets : Notify(w)
    \/ \E w \in Wallets : WriteWatermark(w)
    \/ \E w \in Wallets : Raise(w)
    \/ EndCycle
    \/ Cancel
    \/ Restart

Spec == Init /\ [][Next]_vars

\* Several wallets of one owner, all on TRON, checked in the same cycles of
\* a process that is left running.
InitMulti ==
    InitWith([Wallets -> [user_id : {1}, network : {"tron"},
                          address : {MonAddr}, label : {"a"},
                      last_tx : {EmptyTx}]])

NextMulti ==
    \/ \E w \in DOMAIN db : ProviderNewTx(w)
    \/ StartCycle
    \/ LoadFails
    \/ \E w \in Wallets : QueryStandalone(w)
    \/ \E w \in Wallets : Notify(w)
    \/ \E w \in Wallets : WriteWatermark(w)
    \/ \E w \in Wallets : Raise(w)
    \/ EndCycle

SpecMulti == InitMulti /\ [][NextMulti]_vars

\* ------------------------------------------------ a TRON wallet in detail
\* The `limit` of the TRON query.
TronLimit == 20

\* TRX transfers with their raw amounts, in sun (10^-6 TRX).
ScenarioItems ==
    [kind : {"tx"}, to : {SelfAddr, OtherAddr}, value : {0, 1000000, 5000000},
     hashed : {TRUE}, legs : {0}, status : {1}, in_msg : {TRUE}]

\* A TRON wallet registered when its address had one transaction, h0, which
\* add_wallet stored as the baseline.
InitScenario ==
    /\ db = [w \in {1} |-> [user_id |-> 1, network |-> "tron",
                             address |-> MonAddr, label |-> "a",
                             last_tx |-> 1]]
    /\ chain = [w \in Wallets |->
                   IF w = 1
                   THEN <<[kind |-> "tx", to |-> OtherAddr, value |-> 1000000,
                           hashed |-> TRUE, legs |-> 0, status |-> 1,
                           in_msg |-> TRUE, pos |-> 1]>>
                   ELSE <<>>]
    /\ loop = "sleeping"
    /\ errors = 0
    /\ fetch = NoCall
    /\ keys = API_KEYS
    /\ price_cache = NoPrices
    /\ clock = 0
    /\ calls = [c \in Callers |-> NoTurn]
    /\ reg = [seq |-> Cardinality(DOMAIN db), op |-> <<>>]
    /\ slept = StartupSleep
    /\ form = NoForm
    /\ pc = [w \in Wallets |-> "idle"]
    /\ row = [w \in Wallets |-> NoRow]
    /\ new_txs = [w \in Wallets |-> <<>>]
    /\ k = [w \in Wallets |-> 0]
    /\ seen = [w \in Wallets |-> <<>>]
    /\ notified = [w \in Wallets |-> [p \in 1 .. MaxTx |-> 0]]
    /\ writes = [w \in Wallets |-> 0]
    /\ evicted = [w \in Wallets |-> FALSE]

\* A TRX transfer from or to the address appears at the provider.
ScenarioNewTx(w) ==
    /\ TotalTx < MaxTx
    /\ \E item \in ScenarioItems :
          chain' = [chain EXCEPT ![w] =
                       <<[kind |-> item.kind, to |-> item.to, value |-> item.value,
                          hashed |-> item.hashed, legs |-> item.legs,
                          status |-> item.status, in_msg |-> item.in_msg,
                          pos |-> Len(chain[w]) + 1]>> \o @]
    /\ UNCHANGED <<db, loop, pc, row, new_txs, k, seen, notified, writes,
                   evicted, errors, fetch, keys, price_cache, clock, calls,
                   reg, slept, form>>

\* check_tron with the provider's own limit: a history shorter than the
\* limit comes back whole.
QueryTron(w) ==
    /\ pc[w] = "fetch"
    /\ row[w].network = "tron"
    /\ \E ok \in BOOLEAN :
          LET js == [ok |-> ok, txs |-> IF ok THEN Take(chain[w], TronLimit)
                                      ELSE <<>>]
          IN  /\ seen' = [seen EXCEPT ![w] = <<js>>]
              /\ Found(w, check_tron(js, row[w].address, row[w].last_tx))
    /\ UNCHANGED <<db, chain, loop, row, k, notified, writes, errors, fetch,
                   keys, price_cache, clock, calls, reg, slept, form>>

NextScenario ==
    \/ \E w \in DOMAIN db : ScenarioNewTx(w)
    \/ StartCycle
    \/ LoadFails
    \/ \E w \in Wallets : QueryTron(w)
    \/ \E w \in Wallets : Notify(w)
    \/ \E w \in Wallets : WriteWatermark(w)
    \/ \E w \in Wallets : Raise(w)
    \/ EndCycle

SpecScenario == InitScenario /\ [][NextScenario]_vars

\* --------------------------------------------- registration with a baseline
\* get_latest_tx: the id of the newest entry of the list the network's
\* get_latest_tx_* asks for with limit 1 (on an EVM chain: txlist), or ""
\* when the list is empty.
get_latest_tx(net_key, history) ==
    LET list == Window(history, IF net_key \in ETHERSCAN_NETWORKS THEN "native"
                                ELSE "tx")
    IN  IF list = <<>> THEN EmptyTx ELSE TxHash(Head(list))

\* The histories an address can have when its owner registers it: up to
\* MaxTx - 1 entries, newest first.
Histories(net_key) ==
    UNION {{[i \in 1 .. n |->
               [kind |-> f[i].kind, to |-> f[i].to, value |-> f[i].value,
                hashed |-> f[i].hashed, legs |-> f[i].legs,
                status |-> f[i].status, in_msg |-> f[i].in_msg,
                pos |-> n + 1 - i]] : f \in [1 .. n -> ItemsOf(net_key)]}
           : n \in 1 .. MaxTx - 1}

\* fsm_get_label: a wallet of any network registered for an address that
\* has a history; last_tx is what get_latest_tx returned.
InitBaseline ==
    /\ \E net_key \in ALL_NETWORKS :
          \E history \in Histories(net_key) :
             /\ chain = [w \in Wallets |-> IF w = 1 THEN history ELSE <<>>]
             /\ db = [w \in {1} |->
                        [user_id |-> 1, network |-> net_key, address |-> MonAddr,
                         label |-> "a",
                         last_tx |-> get_latest_tx(net_key, history)]]
    /\ loop = "sleeping"
    /\ errors = 0
    /\ fetch = NoCall
    /\ keys = API_KEYS
    /\ price_cache = NoPrices
    /\ clock = 0
    /\ calls = [c \in Callers |-> NoTurn]
    /\ reg = [seq |-> Cardinality(DOMAIN db), op |-> <<>>]
    /\ slept = StartupSleep
    /\ form = NoForm
    /\ pc = [w \in Wallets |-> "idle"]
    /\ row = [w \in Wallets |-> NoRow]
    /\ new_txs = [w \in Wallets |-> <<>>]
    /\ k = [w \in Wallets |-> 0]
    /\ seen = [w \in Wallets |-> <<>>]
    /\ notified = [w \in Wallets |-> [p \in 1 .. MaxTx |-> 0]]
    /\ writes = [w \in Wallets |-> 0]
    /\ evicted = [w \in Wallets |-> FALSE]

\* The monitor with nothing new arriving at the providers.
NextBaseline ==
    \/ StartCycle
    \/ LoadFails
    \/ \E w \in Wallets : QueryStandalone(w)
    \/ \E w \in Wallets : QueryNative(w)
    \/ \E w \in Wallets : QueryToken(w)
    \/ \E w \in Wallets : Notify(w)
    \/ \E w \in Wallets : WriteWatermark(w)
    \/ \E w \in Wallets : Raise(w)
    \/ EndCycle

SpecBaseline == InitBaseline /\ [][NextBaseline]_vars

\* ------------------------------------------------- an unknown network key
\* The else branch of check_single_wallet: a net_key that is none of the
\* known ones is logged and the task returns.
QueryUnknown(w) ==
    /\ pc[w] = "fetch"
    /\ row[w].network \notin ALL_NETWORKS
    /\ seen' = [seen EXCEPT ![w] = <<>>]
    /\ new_txs' = [new_txs EXCEPT ![w] = <<>>]
    /\ pc' = [pc EXCEPT ![w] = "done"]
    /\ UNCHANGED <<db, chain, loop, row, k, notified, writes, evicted, errors,
                   fetch, keys, price_cache, clock, calls, reg, slept, form>>

\* One wallet of any network key, one not in ALL_NETWORKS among them.
InitQuiet ==
    InitWith([{1} -> [user_id : {1}, network : ALL_NETWORKS \cup {"unlisted"},
                      address : {MonAddr}, label : {"a"},
                      last_tx : {EmptyTx}]])

NextQuiet ==
    \/ Next
    \/ \E w \in Wallets : QueryUnknown(w)

SpecQuiet == InitQuiet /\ [][NextQuiet]_vars

\* ------------------------------------------------------ the wallets table
\* The transfers the registry runs see in all.
RegistryTx == 2

\* The owners who talk to the bot and the labels they type.
Owners == {1, 2}

Labels == {"a", "b"}

\* The columns of UNIQUE(user_id, network, address).
Triple(r) == <<r.user_id, r.network, r.address>>

\* AddWallet as it would be with INSERT OR REPLACE: the row of an existing
\* triple is written over.
AddWalletReplacing(user_id, network, address, label) ==
    LET triple == <<user_id, network, address>>
        same == {w \in DOMAIN db : Triple(db[w]) = triple}
    IN  /\ \/ /\ same # {}
              /\ db' = [w \in DOMAIN db |->
                           IF w \in same
                           THEN [db[w] EXCEPT !.label = label, !.last_tx = EmptyTx]
                           ELSE db[w]]
              /\ reg' = [reg EXCEPT !.op = <<"add", triple, TRUE>>]
           \/ /\ same = {}
              /\ reg.seq < MaxWallets
              /\ LET id == reg.seq + 1
                 IN  db' = [w \in DOMAIN db \cup {id} |->
                               IF w = id
                               THEN [user_id |-> user_id, network |-> network,
                                     address |-> address, label |-> label,
                                     last_tx |-> get_latest_tx(network, chain[id])]
                               ELSE db[w]]
              /\ reg' = [seq |-> reg.seq + 1, op |-> <<"add", triple, TRUE>>]
        /\ UNCHANGED <<chain, loop, errors, pc, row, new_txs, k, seen, notified,
                       writes, evicted, fetch, keys, price_cache, clock, calls,
                       slept, form>>

\* fsm_get_label from get_latest_tx on: add_wallet inserts the row under the
\* next id, or meets the UNIQUE constraint, inserts nothing and returns
\* False.
AddWallet(user_id, network, address, label) ==
    LET triple == <<user_id, network, address>>
        same == {w \in DOMAIN db : Triple(db[w]) = triple}
    IN  /\ \/ /\ same # {}
              /\ db' = db
              /\ reg' = [reg EXCEPT !.op = <<"add", triple, FALSE>>]
           \/ /\ same = {}
              /\ reg.seq < MaxWallets
              /\ LET id == reg.seq + 1
                 IN  db' = [w \in DOMAIN db \cup {id} |->
                               IF w = id
                               THEN [user_id |-> user_id, network |-> network,
                                     address |-> address, label |-> label,
                                     last_tx |-> get_latest_tx(network, chain[id])]
                               ELSE db[w]]
              /\ reg' = [seq |-> reg.seq + 1, op |-> <<"add", triple, TRUE>>]
        /\ UNCHANGED <<chain, loop, errors, pc, row, new_txs, k, seen, notified,
                       writes, evicted, fetch, keys, price_cache, clock, calls,
                       slept, form>>

\* cb_delete_wallet: DELETE FROM wallets WHERE id=? AND user_id=?.
DeleteWallet(wallet_id, user_id) ==
    /\ db' = IF wallet_id \in DOMAIN db /\ db[wallet_id].user_id = user_id
             THEN [w \in DOMAIN db \ {wallet_id} |-> db[w]]
             ELSE db
    /\ reg' = [reg EXCEPT !.op = <<"delete", wallet_id, user_id>>]
    /\ UNCHANGED <<chain, loop, errors, pc, row, new_txs, k, seen, notified,
                   writes, evicted, fetch, keys, price_cache, clock, calls,
                   slept, form>>

\* An empty table.
InitRegistry == InitAll({[w \in {} |-> NoRow]}, {API_KEYS})

\* The owners add and delete TRON wallets while the monitor runs.
NextRegistry ==
    \/ \E user_id \in Owners, label \in Labels :
          AddWallet(user_id, "tron", MonAddr, label)
    \/ \E wallet_id \in Wallets, user_id \in Owners :
          DeleteWallet(wallet_id, user_id)
    \/ \E w \in DOMAIN db : TotalTx < RegistryTx /\ ProviderNewTx(w)
    \/ StartCycle
    \/ \E w \in Wallets : QueryStandalone(w)
    \/ \E w \in Wallets : Notify(w)
    \/ \E w \in Wallets : WriteWatermark(w)
    \/ \E w \in Wallets : Raise(w)
    \/ EndCycle

SpecRegistry == InitRegistry /\ [][NextRegistry]_vars

\* ------------------------------------------------- the address of a wallet
\* A text is a sequence of runs [ch, n]: the character ch, n times. The
\* characters stand for their kinds: "0" a digit outside the base58
\* alphabet, "a" a hexadecimal letter, "g" and "x" letters that are not
\* hexadecimal, "T" the TRON prefix, "l" a letter outside the base58
\* alphabet, " " white space.
StrLen(s) ==
    LET RECURSIVE Sum(_)
        Sum(t) == IF t = <<>> THEN 0 ELSE t[1].n + Sum(Tail(t))
    IN  Sum(s)

CharAt(s, i) ==
    LET RECURSIVE At(_, _)
        At(t, j) == IF t = <<>> THEN ""
                    ELSE IF j <= t[1].n THEN t[1].ch
                    ELSE At(Tail(t), j - t[1].n)
    IN  At(s, i)

\* str.startswith(prefix), the prefix given character by character.
StartsWith(s, prefix) ==
    /\ Len(prefix) <= StrLen(s)
    /\ \A i \in 1 .. Len(prefix) : CharAt(s, i) = prefix[i]

\* all(c in chars for c in s).
AllIn(s, chars) == \A i \in 1 .. Len(s) : s[i].ch \in chars

\* str.strip(): the white space at both ends goes.
Strip(s) ==
    LET RECURSIVE Left(_)
        Left(t) == IF t # <<>> /\ t[1].ch = " " THEN Left(Tail(t)) ELSE t
        RECURSIVE Right(_)
        Right(t) == IF t # <<>> /\ t[Len(t)].ch = " "
                    THEN Right(SubSeq(t, 1, Len(t) - 1)) ELSE t
    IN  Right(Left(s))

\* The characters of the model that are in the alphabet validate_address
\* spells out for Solana.
BASE58 == {"T", "x", "a", "g"}

\* The texts an owner sends: white space or none, up to two leading
\* characters, a run of one character, white space or none.
MinFill == 30

MaxFill == 48

Heads ==
    {<<>>} \cup {<<c>> : c \in {"0", "x", "T"}}
           \cup {<<c, d>> : c, d \in {"0", "x", "T"}}

Text(pad, head, fill, n, trail) ==
    (IF pad THEN <<[ch |-> " ", n |-> 1]>> ELSE <<>>)
    \o [i \in 1 .. Len(head) |-> [ch |-> head[i], n |-> 1]]
    \o <<[ch |-> fill, n |-> n]>>
    \o (IF trail THEN <<[ch |-> " ", n |-> 1]>> ELSE <<>>)

Texts ==
    {Text(pad, head, fill, n, trail) :
        pad \in BOOLEAN, head \in Heads, fill \in {"a", "g", "l"},
        n \in MinFill .. MaxFill, trail \in BOOLEAN}

\* The network keys a selection callback carries: the known ones and one
\* that is none of them.
NetKeys == ALL_NETWORKS \cup {"unlisted"}

validate_address(address, net_key) ==
    LET a == Strip(address)
    IN  CASE net_key = "tron" -> StartsWith(a, <<"T">>) /\ StrLen(a) = 34
          [] net_key = "ton" -> StrLen(a) >= 48
          [] net_key = "solana" ->
                 32 <= StrLen(a) /\ StrLen(a) <= 44 /\ AllIn(a, BASE58)
          [] net_key \in ETHERSCAN_NETWORKS ->
                 StartsWith(a, <<"0", "x">>) /\ StrLen(a) = 42
          [] OTHER -> FALSE

\* /addaddress: the form waits for the address.
cmd_add_address ==
    /\ form.state # "address"
    /\ form' = [state |-> "address", address |-> <<>>, net_key |-> "",
                valid |-> FALSE]
    /\ UNCHANGED <<db, chain, loop, errors, pc, row, new_txs, k, seen,
                   notified, writes, evicted, fetch, keys, price_cache, clock,
                   calls, reg, slept>>

\* The owner's text is stripped and kept when it has 20 to 100 characters;
\* otherwise the form goes on waiting for an address.
fsm_get_address(text) ==
    /\ form.state = "address"
    /\ LET address == Strip(text)
       IN  form' = IF StrLen(address) < 20 \/ StrLen(address) > 100
                   THEN form
                   ELSE [form EXCEPT !.state = "network_search",
                                     !.address = address]
    /\ UNCHANGED <<db, chain, loop, errors, pc, row, new_txs, k, seen,
                   notified, writes, evicted, fetch, keys, price_cache, clock,
                   calls, reg, slept>>

\* The owner picks a network: the address is validated for it, and the form
\* goes on to the label or is cleared. The form keeps the arguments and the
\* result of the validation.
cb_network_selected(net_key) ==
    /\ form.state = "network_search"
    /\ LET valid == validate_address(form.address, net_key)
       IN  form' = [state |-> IF valid THEN "label" ELSE "cleared",
                    address |-> form.address, net_key |-> net_key,
                    valid |-> valid]
    /\ UNCHANGED <<db, chain, loop, errors, pc, row, new_txs, k, seen,
                   notified, writes, evicted, fetch, keys, price_cache, clock,
                   calls, reg, slept>>

NextForm ==
    \/ cmd_add_address
    \/ \E text \in Texts : fsm_get_address(text)
    \/ \E net_key \in NetKeys : cb_network_selected(net_key)

SpecForm == InitRegistry /\ [][NextForm]_vars

\* ------------------------------------------ the pause between two messages
\* One turn of the send loop up to its last await: bot.send_message returns
\* and asyncio.sleep(0.5) starts, or bot.send_message raises and the except
\* clause of the turn goes straight to the next tuple.
Send(w) ==
    /\ pc[w] = "send"
    /\ k[w] < Len(new_txs[w])
    /\ \E delivered \in BOOLEAN :
          LET ev == Reversed(new_txs[w])[k[w] + 1]
          IN  /\ notified' = [notified EXCEPT ![w][ev.pos] =
                                  IF delivered THEN Cap2(@ + 1) ELSE @]
              /\ pc' = [pc EXCEPT ![w] = IF delivered THEN "pause" ELSE "send"]
    /\ k' = [k EXCEPT ![w] = @ + 1]
    /\ UNCHANGED <<db, chain, loop, row, new_txs, seen, writes, evicted,
                   errors, fetch, keys, price_cache, clock, calls,
                   reg, slept, form>>

\* asyncio.sleep(0.5) returns, half a second after the message went out.
Pause(w) ==
    /\ pc[w] = "pause"
    /\ pc' = [pc EXCEPT ![w] = "send"]
    /\ UNCHANGED <<db, chain, loop, row, new_txs, k, seen, notified, writes,
                   evicted, errors, fetch, keys, price_cache, clock, calls,
                   reg, slept, form>>

NextPace ==
    \/ \E w \in DOMAIN db : ProviderNewTx(w)
    \/ StartCycle
    \/ LoadFails
    \/ \E w \in Wallets : QueryStandalone(w)
    \/ \E w \in Wallets : Send(w)
    \/ \E w \in Wallets : Pause(w)
    \/ \E w \in Wallets : WriteWatermark(w)
    \/ \E w \in Wallets : Raise(w)
    \/ EndCycle

\* Two wallets of one recipient, their tasks gathered in the same cycle.
SpecPace == InitMulti /\ [][NextPace]_vars

\* ------------------------------------------------------- missing API keys
\* An EVM or a Solana wallet in a process started with any of the keys
\* missing, or with both.
InitKeys ==
    InitAll([{1} -> [user_id : {1}, network : {"ethereum", "solana"},
                     address : {MonAddr}, label : {"a"},
                      last_tx : {EmptyTx}]],
            SUBSET API_KEYS)

SpecKeys == InitKeys /\ [][Next]_vars

\* ---------------------------------------------------------- get_price_usd
\* The symbols asked for, and the price CoinGecko quotes, in cents per coin.
Symbols == {"TRX", "TON"}
Quote == 250

\* What the request of get_price_usd can come to: status 200 with the price,
\* status 200 with a body that lacks it, another status, or an exception
\* (the total timeout of REQUEST_TIMEOUT seconds among them).
PriceOutcomes == {"200", "200 without usd", "non-200", "timeout", "error"}

\* time.time() moves on.  A request is over, one way or the other, within
\* its total timeout.
Advance ==
    /\ clock + Tick <= MaxTime
    /\ \A c \in Callers :
          calls[c].state = "fetching"
          => clock + Tick - calls[c].now <= REQUEST_TIMEOUT
    /\ clock' = clock + Tick
    /\ UNCHANGED <<db, chain, loop, errors, pc, row, new_txs, k, seen, notified,
                   writes, evicted, fetch, keys, price_cache, calls,
                   reg, slept, form>>

\* get_price_usd has returned `price` to its caller.
Returns(symbol, outcome, price) ==
    [state |-> "returned", symbol |-> symbol, now |-> 0, outcome |-> outcome,
     price |-> price]

\* PriceCall as it would be if a cached entry were returned whatever its
\* age.
PriceCallIgnoringAge(c, symbol) ==
    /\ calls[c].state # "fetching"
    /\ LET now == clock
       IN  calls' = [calls EXCEPT ![c] =
                        IF symbol \in DOMAIN price_cache
                        THEN Returns(symbol, "cache", price_cache[symbol].price)
                        ELSE [state |-> "fetching", symbol |-> symbol,
                              now |-> now, outcome |-> "none", price |-> 0]]
    /\ UNCHANGED <<db, chain, loop, errors, pc, row, new_txs, k, seen, notified,
                   writes, evicted, fetch, keys, price_cache, clock,
                   reg, slept, form>>

\* get_price_usd(symbol) up to its first await: now = time.time(), then the
\* cache under its lock; an entry with now - timestamp below
\* PRICE_CACHE_DURATION is returned, otherwise the request goes out.
PriceCall(c, symbol) ==
    /\ calls[c].state # "fetching"
    /\ LET now == clock
       IN  calls' = [calls EXCEPT ![c] =
                        IF /\ symbol \in DOMAIN price_cache
                           /\ now - price_cache[symbol].timestamp
                                 < PRICE_CACHE_DURATION
                        THEN Returns(symbol, "cache", price_cache[symbol].price)
                        ELSE [state |-> "fetching", symbol |-> symbol,
                              now |-> now, outcome |-> "none", price |-> 0]]
    /\ UNCHANGED <<db, chain, loop, errors, pc, row, new_txs, k, seen, notified,
                   writes, evicted, fetch, keys, price_cache, clock,
                   reg, slept, form>>

\* price_cache[clean_symbol] = (price, now); `written` keeps, as history,
\* the time of the assignment.
Store(symbol, price, now) ==
    [s \in DOMAIN price_cache \cup {symbol} |->
        IF s = symbol
        THEN [price |-> price, timestamp |-> now, written |-> clock]
        ELSE price_cache[s]]

\* PriceAnswer as it would be if a failed request were remembered as a
\* price of 0.
PriceAnswerCachingFailure(c, outcome) ==
    /\ calls[c].state = "fetching"
    /\ LET price == IF outcome = "200" THEN Quote ELSE 0
       IN  /\ price_cache' = Store(calls[c].symbol, price, calls[c].now)
           /\ calls' = [calls EXCEPT ![c] = Returns(@.symbol, outcome, price)]
    /\ UNCHANGED <<db, chain, loop, errors, pc, row, new_txs, k, seen, notified,
                   writes, evicted, fetch, keys, clock, reg, slept, form>>

\* get_price_usd from its request on: a 200 stores js.get(coin_id,
\* {}).get("usd", 0) with the `now` of the call's start and returns it; any
\* other status and any exception return 0.
PriceAnswer(c, outcome) ==
    /\ calls[c].state = "fetching"
    /\ LET price == IF outcome = "200" THEN Quote ELSE 0
       IN  /\ price_cache' = IF outcome \in {"200", "200 without usd"}
                             THEN Store(calls[c].symbol, price, calls[c].now)
                             ELSE price_cache
           /\ calls' = [calls EXCEPT ![c] = Returns(@.symbol, outcome, price)]
    /\ UNCHANGED <<db, chain, loop, errors, pc, row, new_txs, k, seen, notified,
                   writes, evicted, fetch, keys, clock, reg, slept, form>>

NextPrice ==
    \/ Advance
    \/ \E c \in Callers, symbol \in Symbols : PriceCall(c, symbol)
    \/ \E c \in Callers, outcome \in PriceOutcomes : PriceAnswer(c, outcome)

SpecPrice == InitTron /\ [][NextPrice]_vars

\* -------------------------------------------------------- fetch_with_retry
\* What session.get may end in: a status, a 200 whose body r.json() cannot
\* decode, asyncio.TimeoutError, or any other exception (connection reset).
Outcomes == {"200", "undecodable", "429", "404", "500", "timeout", "error"}

RECURSIVE TwoTo(_)
TwoTo(n) == IF n = 0 THEN 1 ELSE 2 * TwoTo(n - 1)

\* Handle as it would be with the same wait after every 429.
HandleFlatWait(attempt, outcome) ==
    CASE outcome = "200" -> [ret |-> "json", sleep |-> 0]
      [] outcome = "429" -> [ret |-> "none", sleep |-> 2]
      [] outcome = "404" -> [ret |-> "absent", sleep |-> 0]
      [] outcome = "500" -> [ret |-> "absent", sleep |-> 0]
      [] outcome = "timeout" ->
             [ret |-> "none",
              sleep |-> IF attempt < MAX_RETRIES - 1 THEN 2 * TwoTo(attempt) ELSE 0]
      [] OTHER ->
             IF attempt = MAX_RETRIES - 1
             THEN [ret |-> "absent", sleep |-> 0]
             ELSE [ret |-> "none", sleep |-> 2]

\* Handle as it would be without the handler `except Exception`.
HandleNoCatchAll(attempt, outcome) ==
    CASE outcome = "200" -> [ret |-> "json", sleep |-> 0]
      [] outcome = "429" -> [ret |-> "none", sleep |-> 2 * TwoTo(attempt) + attempt]
      [] outcome = "404" -> [ret |-> "absent", sleep |-> 0]
      [] outcome = "500" -> [ret |-> "absent", sleep |-> 0]
      [] outcome = "timeout" ->
             [ret |-> "none",
              sleep |-> IF attempt < MAX_RETRIES - 1 THEN 2 * TwoTo(attempt) ELSE 0]
      [] OTHER -> [ret |-> "raised", sleep |-> 0]

\* Handle as it would be if a 404 were waited out like a 429.
HandleRetrying404(attempt, outcome) ==
    CASE outcome = "200" -> [ret |-> "json", sleep |-> 0]
      [] outcome \in {"429", "404"} ->
             [ret |-> "none", sleep |-> 2 * TwoTo(attempt) + attempt]
      [] outcome = "500" -> [ret |-> "absent", sleep |-> 0]
      [] outcome = "timeout" ->
             [ret |-> "none",
              sleep |-> IF attempt < MAX_RETRIES - 1 THEN 2 * TwoTo(attempt) ELSE 0]
      [] OTHER ->
             IF attempt = MAX_RETRIES - 1
             THEN [ret |-> "absent", sleep |-> 0]
             ELSE [ret |-> "none", sleep |-> 2]

\* One iteration of the loop of fetch_with_retry, for the value of `attempt`
\* and the outcome of the request: what it returns ("none": it returns
\* nothing and the loop goes on) and how long it sleeps, in half seconds
\* (0: no sleep).
Handle(attempt, outcome) ==
    CASE outcome = "200" -> [ret |-> "json", sleep |-> 0]
      [] outcome = "429" -> [ret |-> "none", sleep |-> 2 * TwoTo(attempt) + attempt]
      [] outcome = "404" -> [ret |-> "absent", sleep |-> 0]
      [] outcome = "500" -> [ret |-> "absent", sleep |-> 0]
      [] outcome = "timeout" ->
             [ret |-> "none",
              sleep |-> IF attempt < MAX_RETRIES - 1 THEN 2 * TwoTo(attempt) ELSE 0]
      [] OTHER ->
             IF attempt = MAX_RETRIES - 1
             THEN [ret |-> "absent", sleep |-> 0]
             ELSE [ret |-> "none", sleep |-> 2]

\* The rows and tasks play no part in a call.
mvars == <<db, chain, loop, errors, pc, row, new_txs, k, seen, notified, writes,
           evicted, keys, price_cache, clock, calls, reg, slept, form>>

\* fetch_with_retry(url) is called.
Call ==
    /\ fetch.result # "pending"
    /\ fetch' = [attempt |-> 0, requests |-> 0, sleeps |-> <<>>,
                 responses |-> <<>>, result |-> "pending"]
    /\ UNCHANGED mvars

\* Attempt as it would be if a 429 did not use up a pass of the loop.
AttemptNotCounting429 ==
    /\ fetch.result = "pending"
    /\ \E outcome \in Outcomes :
          LET h == Handle(fetch.attempt, outcome)
              next == IF outcome = "429" THEN fetch.attempt ELSE fetch.attempt + 1
          IN  fetch' = [attempt |-> next,
                        requests |-> fetch.requests + 1,
                        sleeps |-> IF h.sleep > 0 THEN Append(fetch.sleeps, h.sleep)
                                   ELSE fetch.sleeps,
                        responses |-> Append(fetch.responses, outcome),
                        result |-> IF h.ret # "none" THEN h.ret
                                   ELSE IF next = MAX_RETRIES THEN "absent"
                                   ELSE "pending"]
    /\ UNCHANGED mvars

\* One pass of `for attempt in range(max_retries)`: the request, its
\* outcome, the return or the sleep; after the last pass, `return None`.
Attempt ==
    /\ fetch.result = "pending"
    /\ \E outcome \in Outcomes :
          LET h == Handle(fetch.attempt, outcome)
              next == fetch.attempt + 1
          IN  fetch' = [attempt |-> next,
                        requests |-> fetch.requests + 1,
                        sleeps |-> IF h.sleep > 0 THEN Append(fetch.sleeps, h.sleep)
                                   ELSE fetch.sleeps,
                        responses |-> Append(fetch.responses, outcome),
                        result |-> IF h.ret # "none" THEN h.ret
                                   ELSE IF next = MAX_RETRIES THEN "absent"
                                   ELSE "pending"]
    /\ UNCHANGED mvars

NextFetch ==
    \/ Call
    \/ Attempt

SpecFetch == InitTron /\ [][NextFetch]_vars

\* The monitor left running (main() never reaches its finally), one wallet
\* of any network.
NextRunning ==
    \/ \E w \in DOMAIN db : ProviderNewTx(w)
    \/ StartCycle
    \/ LoadFails
    \/ \E w \in Wallets : QueryStandalone(w)
    \/ \E w \in Wallets : QueryNative(w)
    \/ \E w \in Wallets : QueryToken(w)
    \/ \E w \in Wallets : Notify(w)
    \/ \E w \in Wallets : WriteWatermark(w)
    \/ \E w \in Wallets : Raise(w)
    \/ EndCycle

\* The event loop runs whatever is ready: the sleeps of monitor_loop end,
\* gather returns, the task goes on after each await.  Of the table and the
\* providers it is assumed that they answer in the end: the queries of one
\* check (both of them on an EVM chain) and the watermark write succeed again
\* and again, though any single one may fail.
ProgramStep ==
    \/ StartCycle
    \/ LoadFails
    \/ EndCycle
    \/ \E w \in Wallets :
          \/ QueryStandalone(w) \/ QueryNative(w) \/ QueryToken(w)
          \/ Notify(w) \/ WriteWatermark(w) \/ Raise(w)

NativeAnswered == \E w \in Wallets : QueryNative(w) /\ seen'[w][1].ok

CheckAnswered ==
    \E w \in Wallets :
        /\ QueryStandalone(w) \/ QueryToken(w)
        /\ \A i \in 1 .. Len(seen'[w]) : seen'[w][i].ok

WatermarkWritten == \E w \in Wallets : WriteWatermark(w)

Fairness ==
    /\ WF_vars(ProgramStep)
    /\ SF_vars(NativeAnswered)
    /\ SF_vars(CheckAnswered)
    /\ SF_vars(WatermarkWritten)

SpecLive == Init /\ [][NextRunning]_vars /\ Fairness

\* The loop left running over one TRON wallet.
SpecLoop == InitTron /\ [][NextMulti]_vars /\ Fairness

\* ------------------------------------------------------------------ claims
\* Vocabulary of the claims.  A task's checker has returned once the task is
\* in its send loop or over; its queries are then all in `seen`.
Returned(w) == pc[w] \in {"send", "done"}

AllOk(w) == \A i \in 1 .. Len(seen[w]) : seen[w][i].ok

\* The provider entries the task's queries returned, and those it made an
\* event of.
SeenEntries(w) ==
    UNION {{seen[w][i].txs[j] : j \in 1 .. Len(seen[w][i].txs)} :
              i \in 1 .. Len(seen[w])}

Emitted(w) == {new_txs[w][i].pos : i \in 1 .. Len(new_txs[w])}

\* The entry of a wallet's history at position p (histories are newest first).
Entry(w, p) == chain[w][Len(chain[w]) - p + 1]

\* On-chain facts about an entry: it moved something, and to this address.
Inbound(tx, address) == Lower(tx.to) = Lower(address)

Moves(tx) == tx.value > 0 /\ tx.status = 1 /\ tx.in_msg

\* What the checker of a network keeps of its window (ahead of the watermark).
Qualifies(net, tx, address) ==
    CASE net = "ton" -> tx.in_msg /\ tx.value > 0
      [] net = "solana" ->
             \/ tx.legs > 0 /\ Inbound(tx, address) /\ tx.value > 0
             \/ tx.legs = 0 /\ tx.status = 1
      [] OTHER -> Inbound(tx, address) /\ tx.value > 0

\* The sends of the task so far, in the order made.
SentSoFar(w) == SubSeq(Reversed(new_txs[w]), 1, k[w])

\* A send of the task's cycle raised: the turn is over, nothing delivered.
SendFailed(w) ==
    \E i \in 1 .. Len(SentSoFar(w)) : notified[w][SentSoFar(w)[i].pos] = 0

\* C1: over the poll cycles of one run of the process (no crash, no
\* cancellation: the histories start anew with the process), and while the wallet's
\* watermark is still in its provider's window, no transfer of the wallet is
\* delivered to the owner more than once, whatever the network.
C1_NoDuplicateNotification ==
    \A w \in DOMAIN db : \A p \in 1 .. MaxTx :
        ~evicted[w] => notified[w][p] <= 1

\* C2: when the watermark is the id of the newest transaction the provider
\* returned to the checker, the checker returns nothing, whatever the network.
C2_DiffIdempotent ==
    \A w \in DOMAIN db :
        (/\ Returned(w) /\ AllOk(w)
         /\ SeenEntries(w) # {}
         /\ \E tx \in SeenEntries(w) :
               /\ \A other \in SeenEntries(w) : other.pos <= tx.pos
               /\ TxHash(tx) = row[w].last_tx)
        => new_txs[w] = <<>>

C4_ColdStartTakesWindow ==
    \A w \in DOMAIN db :
        (Returned(w) /\ AllOk(w) /\ row[w].last_tx = EmptyTx)
        => \A tx \in SeenEntries(w) :
              (Inbound(tx, row[w].address) /\ Moves(tx)) => tx.pos \in Emitted(w)

\* C5: no checker returns an event for a transaction whose destination is
\* not the monitored address (compared without regard to case).
C5_InboundOnly ==
    \A w \in DOMAIN db : \A p \in Emitted(w) :
        Inbound(Entry(w, p), row[w].address)

\* C6: within one task the sends go oldest transfer first: of two transfers
\* sent, the one older on chain was sent before the newer one.
C6_OldestFirst ==
    \A w \in DOMAIN db : \A i, j \in 1 .. Len(SentSoFar(w)) :
        i < j => SentSoFar(w)[i].pos <= SentSoFar(w)[j].pos

\* C7: after a cycle in which the checker returned events for a wallet, the
\* stored watermark is the id of the newest on chain of those transfers, and
\* that is the id of the last send attempted.
C7_WatermarkIsNewest ==
    \A w \in DOMAIN db :
        (pc[w] = "done" /\ new_txs[w] # <<>>)
        => /\ \E e \in {new_txs[w][i] : i \in 1 .. Len(new_txs[w])} :
                 /\ \A p \in Emitted(w) : p <= e.pos
                 /\ db[w].last_tx = e.hash
           /\ db[w].last_tx = SentSoFar(w)[Len(SentSoFar(w))].hash

\* C8: in a cycle a wallet's watermark is written at most once, and only
\* once a send has been attempted for every new transfer of the wallet.
C8_WriteOnceAfterSends ==
    \A w \in Wallets :
        /\ writes[w] <= 1
        /\ writes[w] = 1 => (new_txs[w] # <<>> /\ k[w] = Len(new_txs[w]))

C8_Witness ==
    \E w \in DOMAIN db : writes[w] = 1 /\ Len(new_txs[w]) >= 2 /\ loop = "gathering"

\* C9: a send that raises is swallowed: a task that found transfers ends
\* with a send attempted for each and its watermark advanced, whether or not
\* sends failed, in its own wallet or in another one's task.
C9_FailedSendSwallowed ==
    \A w \in DOMAIN db :
        (pc[w] = "done" /\ new_txs[w] # <<>>)
        => /\ k[w] = Len(new_txs[w])
           /\ writes[w] = 1
           /\ db[w].last_tx = new_txs[w][1].hash

C9_Witness ==
    /\ pc[1] = "done" /\ SendFailed(1) /\ Len(new_txs[1]) >= 2 /\ writes[1] = 1
    /\ pc[2] = "done" /\ ~SendFailed(2) /\ new_txs[2] # <<>> /\ writes[2] = 1

\* What the checker would return for the wallet right now, with the stored
\* watermark and every query answered.
NextDiff(w) ==
    LET net == db[w].network
    IN  Checker(net,
                [ok |-> TRUE,
                 txs |-> Window(chain[w], IF net \in ETHERSCAN_NETWORKS
                                          THEN "native" ELSE "tx")],
                [ok |-> TRUE, txs |-> Window(chain[w], "token")],
                db[w].address, db[w].last_tx)

\* C10: a task cancelled (or lost in a crash) before its watermark write
\* leaves the stored watermark at its value of before the cycle, and the
\* transfers it had found and not yet sent are returned again by the next
\* check (those the provider's window still holds).
C10_CancelLosesNothing ==
    \A w \in DOMAIN db : pc[w] = "cancelled" =>
        /\ db[w].last_tx = row[w].last_tx
        /\ \A i \in (k[w] + 1) .. Len(new_txs[w]) :
              LET e == Reversed(new_txs[w])[i]
              IN  (\E j \in 1 .. Len(Window(chain[w], Entry(w, e.pos).kind)) :
                      Window(chain[w], Entry(w, e.pos).kind)[j].pos = e.pos)
                  => \E j \in 1 .. Len(NextDiff(w)) : NextDiff(w)[j].pos = e.pos

\* The entry at position p is in the wallet's provider window of its kind.
InWindow(w, p) ==
    /\ p <= Len(chain[w])
    /\ \E j \in 1 .. Len(Window(chain[w], Entry(w, p).kind)) :
          Window(chain[w], Entry(w, p).kind)[j].pos = p

\* A transfer to the wallet that moved a value, in the window and newer than
\* the stored watermark (every entry is, while there is no watermark).
Pending(w, p) ==
    /\ w \in DOMAIN db
    /\ InWindow(w, p)
    /\ Inbound(Entry(w, p), db[w].address) /\ Moves(Entry(w, p))
    /\ db[w].last_tx = EmptyTx \/ p > db[w].last_tx

\* The running task of the wallet has begun the send of the entry.
Attempted(w, p) ==
    \E i \in 1 .. Len(SentSoFar(w)) : SentSoFar(w)[i].pos = p

\* C11: while the loop keeps running and the providers answer in the end,
\* every transfer to a wallet that moved a value and stands in the provider's
\* window ahead of the watermark gets a send attempt in some cycle, unless
\* newer entries push it out of the window first.
C11_EveryTransferAttempted ==
    \A p \in 1 .. MaxTx :
        [](Pending(1, p) => <>(Attempted(1, p) \/ ~InWindow(1, p)))

\* C12: an exception in one wallet's task ends that task only: the loop is
\* not thrown into its own handler, no other task is dropped, and once the
\* cycle is over every other task has finished, those that found transfers
\* with every send attempted and the watermark written.
C12_TaskIsolated ==
    \A v \in DOMAIN db : pc[v] = "raised" =>
        /\ loop \in {"gathering", "sleeping"}
        /\ errors = 0
        /\ \A w \in DOMAIN db \ {v} :
              /\ pc[w] # "cancelled"
              /\ loop = "sleeping" => pc[w] \in {"done", "raised"}
              /\ (pc[w] = "done" /\ new_txs[w] # <<>>)
                 => /\ k[w] = Len(new_txs[w])
                    /\ writes[w] = 1
                    /\ db[w].last_tx = new_txs[w][1].hash

C12_Witness ==
    /\ loop = "sleeping"
    /\ pc[1] = "raised"
    /\ pc[2] = "done" /\ new_txs[2] # <<>> /\ writes[2] = 1

\* C13: monitor_loop does not end by itself: it never stops while nobody
\* cancels it, and after a wallet load that failed it begins a cycle again.
C13_LoopSurvivesLoadError ==
    /\ [](loop # "stopped")
    /\ [](errors > 0 => <>(loop = "gathering"))

C13_Witness == errors > 1 /\ loop = "sleeping"

\* A task that has begun and not ended.
Running(w) == pc[w] \in {"fetch", "token", "send"}

\* C14: tasks exist only while the loop waits in gather, one for each row
\* the cycle loaded and none else: no task is under way when the loop
\* sleeps or loads the wallets again.
C14_OneTaskPerWallet ==
    /\ loop # "gathering" => \A w \in Wallets : ~Running(w)
    /\ loop = "gathering" => \A w \in Wallets : (pc[w] # "idle") <=> (row[w] # NoRow)
    /\ \A w \in Wallets : row[w] # NoRow => w \in DOMAIN db /\ row[w].address = db[w].address

C14_Witness ==
    loop = "gathering" /\ pc[1] = "send" /\ pc[2] = "fetch"

\* The call has returned (or raised).
Over == fetch.result \notin {"idle", "pending"}

\* C15: a call answered 429, 429, 200 makes three requests, sleeps twice,
\* the second time longer than the first, and returns the decoded body.
C15_RateLimitedThenOk ==
    fetch.responses = <<"429", "429", "200">>
    => /\ fetch.requests = 3
       /\ Len(fetch.sleeps) = 2
       /\ fetch.sleeps[2] > fetch.sleeps[1]
       /\ fetch.result = "json"

C15_Witness == fetch.responses = <<"429", "429", "200">> /\ Over

\* C16: a call gives up only after MAX_RETRIES requests when what it got
\* was a timeout or a status other than 2xx and 404: a call that is over and
\* whose last outcome was such a failure has made MAX_RETRIES requests.
C16_RetriesTransient ==
    (Over /\ fetch.responses[Len(fetch.responses)] \in {"429", "500", "timeout"})
    => fetch.requests = MAX_RETRIES

\* C17: a call never raises: it ends with the decoded body or with None,
\* whatever the outcomes of its requests, and with None when its last pass
\* of the loop did not get a body.
C17_NeverRaises ==
    /\ fetch.result \in {"idle", "pending", "json", "absent"}
    /\ (fetch.attempt = MAX_RETRIES /\ fetch.responses[MAX_RETRIES] # "200")
       => fetch.result = "absent"

C17_Witness ==
    /\ fetch.responses = <<"error", "undecodable", "error">>
    /\ fetch.result = "absent"

\* C18: a call makes at most MAX_RETRIES requests and is over once it has
\* made that many.
C18_BoundedRequests ==
    /\ fetch.requests <= MAX_RETRIES
    /\ fetch.requests = MAX_RETRIES => Over

C18_Witness == fetch.responses = <<"429", "429", "429">> /\ Over

\* C19: a 404 ends the call then and there with None: it is the last
\* request, and no sleep follows it (the sleeps are those of the passes
\* before it).
C19_NotFoundReturnsAtOnce ==
    \A i \in 1 .. Len(fetch.responses) :
        fetch.responses[i] = "404"
        => /\ i = Len(fetch.responses)
           /\ fetch.result = "absent"
           /\ Len(fetch.sleeps) = i - 1

C19_Witness == fetch.responses = <<"timeout", "404">> /\ Over

\* C20: the sleep after the failed pass i (counted from 0) that another
\* pass follows is 2^i seconds for a timeout or any other exception and
\* 2^i + 0.5 i seconds for a 429 (here in half seconds).
C20_BackoffSchedule ==
    \A j \in 1 .. Len(fetch.responses) - 1 :
        /\ fetch.responses[j] \in {"timeout", "error", "undecodable"}
           => fetch.sleeps[j] = 2 * TwoTo(j - 1)
        /\ fetch.responses[j] = "429"
           => fetch.sleeps[j] = 2 * TwoTo(j - 1) + (j - 1)

\* C21: a check whose fetch (on an EVM chain: either of the two) came back
\* empty-handed returns no event: nothing is sent for the wallet in the
\* cycle and its watermark stays.
C21_FailedFetchSkipsWallet ==
    \A w \in DOMAIN db :
        (Returned(w) /\ ~AllOk(w))
        => /\ new_txs[w] = <<>>
           /\ k[w] = 0
           /\ db[w].last_tx = row[w].last_tx

\* Prices in cents per coin that get_price_usd may hand to the send loop.
SomePrices == {0, 250}

\* C28: the EVM and TON checkers return no event of amount 0; on an EVM
\* chain, with no watermark and a native list of two transfers to the
\* address, one of value 0 and one that moves something, the native events
\* are that of the second one alone.
C28_ZeroValueFiltered ==
    \A w \in DOMAIN db :
        (Returned(w) /\ row[w].network \in ETHERSCAN_NETWORKS \cup {"ton"})
        => /\ \A i \in 1 .. Len(new_txs[w]) : new_txs[w][i].amount.n > 0
           /\ \A i \in 1 .. Len(new_txs[w]) :
                 Entry(w, new_txs[w][i].pos).value > 0
           /\ (/\ row[w].network \in ETHERSCAN_NETWORKS
               /\ row[w].last_tx = EmptyTx
               /\ seen[w][1].ok
               /\ Len(seen[w][1].txs) = 2
               /\ \A j \in 1 .. 2 : Inbound(seen[w][1].txs[j], row[w].address)
               /\ \E j \in 1 .. 2 : seen[w][1].txs[j].value = 0
               /\ \E j \in 1 .. 2 : seen[w][1].txs[j].value > 0)
              => \E j \in 1 .. 2 :
                    /\ seen[w][1].txs[j].value > 0
                    /\ {e \in {new_txs[w][i] : i \in 1 .. Len(new_txs[w])} :
                           Entry(w, e.pos).kind = "native"}
                       = {Event(seen[w][1].txs[j], "ETH", 18)}

C28_Witness ==
    \E w \in DOMAIN db :
        /\ Returned(w) /\ row[w].network \in ETHERSCAN_NETWORKS
        /\ row[w].last_tx = EmptyTx
        /\ seen[w][1].ok /\ Len(seen[w][1].txs) = 2
        /\ Inbound(seen[w][1].txs[1], row[w].address)
        /\ seen[w][1].txs[1].value = 0
        /\ Inbound(seen[w][1].txs[2], row[w].address)
        /\ seen[w][1].txs[2].value > 0
        /\ Len(new_txs[w]) = 1

\* The entries of a Solana answer ahead of the watermark's own.
RECURSIVE Ahead(_, _)
Ahead(txs, last_tx) ==
    IF txs = <<>> \/ TxHash(Head(txs)) = last_tx THEN <<>>
    ELSE <<Head(txs)>> \o Ahead(Tail(txs), last_tx)

\* C29: a Solana entry ahead of the watermark without token legs and with
\* status 1 yields one event, of amount 0; its message shows the placeholder
\* where the amount would stand, whatever the price, and once the task is
\* through it has made the send, and stored the entry's id when the event
\* is the first of new_txs.
C29_SolanaFallback ==
    \A w \in DOMAIN db :
        (Returned(w) /\ row[w].network = "solana" /\ seen[w][1].ok)
        => \A j \in 1 .. Len(Ahead(seen[w][1].txs, row[w].last_tx)) :
              LET tx == Ahead(seen[w][1].txs, row[w].last_tx)[j]
                  evs == {i \in 1 .. Len(new_txs[w]) : new_txs[w][i].pos = tx.pos}
              IN  (tx.legs = 0 /\ tx.status = 1)
                  => /\ Cardinality(evs) = 1
                     /\ \A i \in evs :
                           /\ new_txs[w][i].amount.n = 0
                           /\ new_txs[w][i].hash = TxHash(tx)
                           /\ \A price \in SomePrices :
                                 Render(new_txs[w][i].amount, price).amount_str
                                 = <<"Check TX for details">>
                           /\ pc[w] = "done" =>
                                 /\ Attempted(w, tx.pos)
                                 /\ i = 1 => db[w].last_tx = TxHash(tx)

C29_Witness ==
    \E w \in DOMAIN db :
        /\ pc[w] = "done" /\ row[w].network = "solana"
        /\ Len(new_txs[w]) = 2
        /\ new_txs[w][1].amount.n = 0
        /\ Entry(w, new_txs[w][1].pos).legs = 0
        /\ db[w].last_tx = new_txs[w][1].hash
        /\ notified[w][new_txs[w][1].pos] = 1

\* The entry is a transfer of `value` sun to the address, at position p.
IsTransferIn(tx, p, value) ==
    tx.pos = p /\ tx.to = SelfAddr /\ tx.value = value

\* The query of wallet 1 returned h2 (5 000 000 sun to the address), h1
\* (1 000 000 sun to the address) and h0, with h0 the watermark.
ScenarioSeen ==
    /\ Returned(1) /\ row[1].last_tx = 1 /\ seen[1][1].ok
    /\ Len(seen[1][1].txs) = 3
    /\ IsTransferIn(seen[1][1].txs[1], 3, 5000000)
    /\ IsTransferIn(seen[1][1].txs[2], 2, 1000000)
    /\ seen[1][1].txs[3].pos = 1

\* C27: a TRON wallet with watermark h0 (position 1) whose query returns
\* h2 (5 000 000 sun to the address), h1 (1 000 000 sun to the address) and
\* h0: the check returns (h2, TRX, 5.0) and (h1, TRX, 1.0), the first turn
\* of the send loop is the message for h1 and the second the one for h2,
\* there are two turns, and h2 is stored.
C27_TronScenario ==
    /\ [](ScenarioSeen
          => /\ Len(new_txs[1]) = 2
             /\ new_txs[1][1].hash = 3 /\ new_txs[1][1].coin = "TRX"
             /\ Fixed8(new_txs[1][1].amount) = 5 * Pow10(8)
             /\ new_txs[1][2].hash = 2 /\ new_txs[1][2].coin = "TRX"
             /\ Fixed8(new_txs[1][2].amount) = 1 * Pow10(8)
             /\ pc[1] = "done" => (k[1] = 2 /\ db[1].last_tx = 3))
    /\ [][(ScenarioSeen /\ k'[1] = k[1] + 1)
          => \A p \in 1 .. MaxTx :
                notified'[1][p] # notified[1][p]
                => p = (IF k[1] = 0 THEN 2 ELSE 3)]_vars

C27_Witness ==
    /\ pc[1] = "done" /\ row[1].last_tx = 1 /\ seen[1][1].ok
    /\ Len(seen[1][1].txs) = 3
    /\ IsTransferIn(seen[1][1].txs[1], 3, 5000000)
    /\ IsTransferIn(seen[1][1].txs[2], 2, 1000000)
    /\ notified[1][2] = 1 /\ notified[1][3] = 1
    /\ db[1].last_tx = 3

\* C26: every send attempt of a task, delivered or failed, is followed by the
\* 0.5 s pause, and no message goes out to a recipient while the pause that
\* follows another message to the same recipient (from a task of another of
\* the recipient's wallets) is still running.
C26_DeliveriesSpaced ==
    [][\A w \in DOMAIN db :
          k'[w] = k[w] + 1
          => /\ pc'[w] = "pause"
             /\ \A v \in DOMAIN db \ {w} :
                   (pc[v] = "pause" /\ row[v].user_id = row[w].user_id)
                   => notified'[w] = notified[w]]_vars

\* The part of C26 about one task whose sends all succeed: its next attempt
\* comes only after the pause.
C26_PausedAfterDelivery ==
    [][\A w \in DOMAIN db :
          (k'[w] = k[w] + 1 /\ notified'[w] # notified[w])
          => pc'[w] = "pause"]_vars

\* The part of C26 about two wallets of one recipient.
C26_AcrossWallets ==
    [][\A w \in DOMAIN db :
          k'[w] = k[w] + 1
          => \A v \in DOMAIN db \ {w} :
                (pc[v] = "pause" /\ row[v].user_id = row[w].user_id)
                => notified'[w] = notified[w]]_vars

\* A call of get_price_usd by caller c begins in this step.
PriceCalled(c) == calls[c].state # "fetching" /\ calls'[c] # calls[c]

\* C22: get_price_usd returns a cached entry only when now - timestamp is
\* below 60 s, and the caller that finds the entry of its symbol that old or
\* older goes on to the request itself.
C22_NeverStale ==
    [][\A c \in Callers :
          PriceCalled(c)
          => LET s == calls'[c].symbol
             IN  s \in DOMAIN price_cache
                 => LET age == clock - price_cache[s].timestamp
                    IN  /\ calls'[c].outcome = "cache"
                           => age < PRICE_CACHE_DURATION
                        /\ age >= PRICE_CACHE_DURATION
                           => calls'[c].state = "fetching"]_vars

C22_Witness ==
    \E c \in Callers :
        /\ calls[c].state = "fetching"
        /\ calls[c].symbol \in DOMAIN price_cache
        /\ calls[c].now - price_cache[calls[c].symbol].timestamp
              >= PRICE_CACHE_DURATION

\* C23: with a price in the cache for its symbol, a call made less than 60 s
\* after that price was fetched issues no request, and a call made 61 s or
\* more after it issues one, however long the fetch had taken.
C23_TtlFromFetch ==
    [][\A c \in Callers :
          PriceCalled(c)
          => LET s == calls'[c].symbol
             IN  (s \in DOMAIN price_cache /\ price_cache[s].price # 0)
                 => LET since == clock - price_cache[s].written
                    IN  /\ since < 60 => calls'[c].state # "fetching"
                        /\ since >= 61 => calls'[c].state = "fetching"]_vars

\* The same with the 60 s counted from the moment the fetching call began.
C23_TtlFromCallStart ==
    [][\A c \in Callers :
          PriceCalled(c)
          => LET s == calls'[c].symbol
             IN  (s \in DOMAIN price_cache /\ price_cache[s].price # 0)
                 => LET since == clock - price_cache[s].timestamp
                    IN  /\ since < 60 => calls'[c].state # "fetching"
                        /\ since >= 61 => calls'[c].state = "fetching"]_vars

\* The ways a price request fails.
PriceFailures == {"non-200", "timeout", "error"}

\* C24: a request that ends with a status other than 200, in the timeout or
\* in any other exception makes get_price_usd return 0 and leaves
\* price_cache as it was.
C24_FailureLeavesCache ==
    [][\A c \in Callers :
          (/\ calls[c].state = "fetching"
           /\ calls'[c].state = "returned"
           /\ calls'[c].outcome \in PriceFailures)
          => /\ calls'[c].price = 0
             /\ price_cache' = price_cache]_vars

C24_Witness ==
    \E c \in Callers :
        /\ calls[c].state = "returned"
        /\ calls[c].outcome \in PriceFailures
        /\ calls[c].symbol \in DOMAIN price_cache
        /\ price_cache[calls[c].symbol].price = Quote

\* C25: a wallet whose checker wants a key the process does not have gets
\* an empty result with no query made and no exception, and so no message
\* and no write of its watermark.
C25_MissingKeyIsQuiet ==
    \A w \in DOMAIN db :
        ~HasKey(db[w].network)
        => /\ seen[w] = <<>>
           /\ new_txs[w] = <<>>
           /\ pc[w] \in {"idle", "fetch", "done", "cancelled"}
           /\ \A p \in 1 .. MaxTx : notified[w][p] = 0
           /\ writes[w] = 0
           /\ db[w].last_tx = EmptyTx

C25_Witness ==
    \E w \in DOMAIN db :
        /\ ~HasKey(db[w].network)
        /\ pc[w] = "done"
        /\ \E i \in 1 .. Len(chain[w]) :
              Inbound(chain[w][i], db[w].address) /\ Moves(chain[w][i])

\* The amounts of the tuples a message is made of.
SomeAmounts == {[n |-> 0, d |-> 0], [n |-> 25, d |-> 1]}

\* C30: the USD field of the message made with the price get_price_usd
\* returned is the placeholder when the price is 0 or the amount is 0, and
\* amount x price otherwise.
C30_UsdField ==
    \A c \in Callers :
        calls[c].state = "returned"
        => \A amount \in SomeAmounts :
              Render(amount, calls[c].price).usd_str
              = IF calls[c].price = 0 \/ amount.n = 0
                THEN <<"--">>
                ELSE <<"$", RoundDiv(amount.n * calls[c].price, amount.d)>>

\* C39: when the pass with attempt = MAX_RETRIES - 1 has failed by timeout,
\* by another exception or by a 429, the call returns without a sleep after
\* that pass: it has slept at most once per earlier pass.
C39_NoSleepAfterLastAttempt ==
    (/\ Len(fetch.responses) = MAX_RETRIES
     /\ fetch.responses[MAX_RETRIES] \in {"timeout", "error", "undecodable", "429"})
    => /\ fetch.result = "absent"
       /\ Len(fetch.sleeps) <= MAX_RETRIES - 1

\* The same for the last pass ending in an exception only.
C39_NoSleepAfterLastException ==
    (/\ Len(fetch.responses) = MAX_RETRIES
     /\ fetch.responses[MAX_RETRIES] \in {"timeout", "error", "undecodable"})
    => /\ fetch.result = "absent"
       /\ Len(fetch.sleeps) <= MAX_RETRIES - 1

\* C34: price_cache never holds a price of 0 (unknown): a call that returns
\* 0, the one answered 200 without a price for its id included, writes no
\* entry.
C34_NoNegativeCaching ==
    \A s \in DOMAIN price_cache : price_cache[s].price # 0

\* C40: whatever the order in which concurrent calls for a symbol start and
\* are answered, a write to the symbol's entry never puts an older
\* timestamp in the place of a newer one.
C40_TimestampMonotone ==
    [][\A s \in DOMAIN price_cache :
          /\ s \in DOMAIN price_cache'
          /\ price_cache'[s].timestamp >= price_cache[s].timestamp]_vars

\* C35: a wallet registered with a non-empty baseline gets no message for
\* anything its address had before the registration: while nothing new
\* arrives, no cycle sends anything, on any network.
C35_BaselineSilencesHistory ==
    \A w \in DOMAIN db :
        get_latest_tx(db[w].network, chain[w]) # EmptyTx
        => \A p \in 1 .. MaxTx : notified[w][p] = 0

\* The same for the networks with a single list.
C35_BaselineSilencesHistoryStandalone ==
    \A w \in DOMAIN db :
        (/\ db[w].network \in STANDALONE_NETWORKS
         /\ get_latest_tx(db[w].network, chain[w]) # EmptyTx)
        => \A p \in 1 .. MaxTx : notified[w][p] = 0

\* C38: update_last_tx is never called with the empty id: no step stores
\* an empty watermark, and a wallet that has a watermark keeps having one.
C38_NeverStoresEmpty ==
    [][\A w \in DOMAIN db :
          /\ writes'[w] > writes[w] => db'[w].last_tx # EmptyTx
          /\ db[w].last_tx # EmptyTx => db'[w].last_tx # EmptyTx]_vars

\* The same for the networks whose checkers read tx["hash"].
C38_NeverStoresEmptyHashed ==
    [][\A w \in DOMAIN db :
          db[w].network # "solana"
          => /\ writes'[w] > writes[w] => db'[w].last_tx # EmptyTx
             /\ db[w].last_tx # EmptyTx => db'[w].last_tx # EmptyTx]_vars

\* monitor_loop comes out of a sleep and calls get_wallets.
Loads == loop = "sleeping" /\ (loop' = "gathering" \/ errors' = errors + 1)

\* C31: the loop calls get_wallets only out of a sleep, of 10 s before the
\* first pass and of POLL_SECONDS before every other, and each pass, the
\* one that ends in the handler included, leaves the loop in the sleep of
\* POLL_SECONDS.
C31_SleepsBetweenCycles ==
    [][/\ Loads => /\ slept.kind \in {"startup", "poll"}
                   /\ slept.kind = "startup" => slept.seconds = 10
                   /\ slept.kind = "poll" => slept.seconds = POLL_SECONDS
       /\ (loop' = "sleeping" /\ (loop = "gathering" \/ Loads))
          => slept' = PollSleep]_vars

C31_Witness ==
    loop = "sleeping" /\ slept = PollSleep /\ errors = 2

\* C32: no two rows of the table have the same (user_id, network, address),
\* and add_wallet for a triple that is there returns False and leaves every
\* row, the watermark and label of the existing one included, as it was.
C32_TripleUnique ==
    /\ [](\A v, w \in DOMAIN db : Triple(db[v]) = Triple(db[w]) => v = w)
    /\ [][(/\ reg' # reg
           /\ reg'.op[1] = "add"
           /\ \E w \in DOMAIN db : Triple(db[w]) = reg'.op[2])
          => (db' = db /\ reg'.op[3] = FALSE)]_vars

C32_Witness ==
    /\ reg.op # <<>> /\ reg.op[1] = "add" /\ reg.op[3] = FALSE
    /\ \E w \in DOMAIN db :
          /\ Triple(db[w]) = reg.op[2]
          /\ db[w].last_tx # EmptyTx
    /\ Cardinality(DOMAIN db) = 2

\* C36: a step of the monitor (not an add or delete by an owner) creates no
\* row and deletes none, and changes of a row nothing but the watermark, and
\* that only for the wallet whose task makes the step with its own
\* new_txs[0][0]; the task of a wallet deleted meanwhile changes nothing.
C36_TaskWritesOwnWatermarkOnly ==
    [][reg' = reg
       => /\ DOMAIN db' = DOMAIN db
          /\ \A v \in DOMAIN db :
                db'[v] # db[v]
                => /\ pc[v] = "send" /\ pc'[v] = "done"
                   /\ row[v].user_id = db[v].user_id
                   /\ db'[v] = [db[v] EXCEPT !.last_tx = new_txs[v][1].hash]]_vars

C36_Witness ==
    \E w \in Wallets :
        /\ w \notin DOMAIN db
        /\ pc[w] = "done" /\ writes[w] = 1
        /\ reg.op = <<"delete", w, row[w].user_id>>
        /\ DOMAIN db # {}

\* C37: a task whose diff came back empty, the provider having nothing new,
\* the network key being unknown or a fetch having failed, has made no send
\* turn (so sent no message and asked no price) and has not written the
\* watermark, which is the one the task was started with; and the task of
\* an unknown network key always ends that way.
C37_EmptyDiffIsQuiet ==
    \A w \in DOMAIN db :
        /\ (pc[w] = "done" /\ new_txs[w] = <<>>)
           => /\ k[w] = 0
              /\ writes[w] = 0
              /\ db[w].last_tx = row[w].last_tx
        /\ (/\ row[w].network \notin ALL_NETWORKS
            /\ pc[w] \notin {"idle", "fetch", "cancelled"})
           => (pc[w] = "done" /\ new_txs[w] = <<>>)

C37_Witness ==
    \E w \in DOMAIN db :
        /\ pc[w] = "done" /\ new_txs[w] = <<>>
        /\ ~AllOk(w)
        /\ \E p \in 1 .. Len(chain[w]) : Pending(w, p)

\* The hexadecimal characters among those of the model.
HEX == {"0", "a"}

\* The address formats as the claim words them, but for the characters
\* after "0x".
WellFormedButHex(a, net_key) ==
    CASE net_key \in ETHERSCAN_NETWORKS ->
             StartsWith(a, <<"0", "x">>) /\ StrLen(a) = 42
      [] net_key = "tron" -> StrLen(a) = 34 /\ StartsWith(a, <<"T">>)
      [] net_key = "ton" -> StrLen(a) >= 48
      [] net_key = "solana" ->
             /\ StrLen(a) \in 32 .. 44
             /\ \A i \in 1 .. StrLen(a) : CharAt(a, i) \in BASE58
      [] OTHER -> FALSE

WellFormed(a, net_key) ==
    /\ WellFormedButHex(a, net_key)
    /\ net_key \in ETHERSCAN_NETWORKS
       => \A i \in 3 .. StrLen(a) : CharAt(a, i) \in HEX

Validated == form.state \in {"label", "cleared"}

\* C33: the validation accepts an address for a network key exactly when it
\* is "0x" and 40 hexadecimal characters on an EVM network, 34 characters
\* beginning with "T" on TRON, 48 characters or more on TON, 32 to 44
\* base58 characters on Solana; an unknown network key is refused.
C33_ValidationExact ==
    Validated => (form.valid <=> WellFormed(form.address, form.net_key))

\* The same without the demand that the 40 characters be hexadecimal.
C33_ValidationExactButHex ==
    Validated => (form.valid <=> WellFormedButHex(form.address, form.net_key))

====
